---------------------------- MODULE Spec2Model ----------------------------
(***************************************************************************)
(* HeySeen table pipeline (heyseen/core/table_recognizer.py).              *)
(*                                                                         *)
(* TableRecognizer.process_table: _detect_tables reconstructs a grid of    *)
(* cells per table region from the detector's boxes, every cell is OCR'd   *)
(* through the caller's callback, _is_false_positive_table validates the   *)
(* filled table and _build_latex renders it.                               *)
(*                                                                         *)
(* Coordinates are held in half pixels (the detector returns floats), so   *)
(* that int() truncation in the crop computation is observable: a pixel    *)
(* quantity n of the source is Px(n) here.  Scores are held in percent.    *)
(* Text is a sequence of one-character strings.                            *)
(***************************************************************************)
EXTENDS Integers, Sequences, FiniteSets, TLC

VARIABLES
    model_loaded,       \* self.model is not None
    detections,         \* zip(scores, labels, boxes) of the detector
    pc,                 \* position inside process_table
    rows, cols, spanning_cells, header_rows, table_boxes,
    clusters,           \* the row clusters of the fallback
    t_idx,              \* loop index over table_boxes (1-based)
    regions,            \* per processed region: its locals
    tables_cells,       \* all_tables_cells / tables_cells
    idx,                \* loop index over tables_cells (1-based)
    i,                  \* loop index over the cells of a table (1-based)
    cells_with_content, \* the list built by the OCR loop
    ocr_calls,          \* log of callback invocations: <<table, cell>>
    rejected,           \* tables the validator rejected
    latex_outputs,      \* rendered tables
    exception           \* the exception process_table exits with

table_vars == <<model_loaded, detections, pc, rows, cols, spanning_cells,
                header_rows, table_boxes, clusters, t_idx, regions, tables_cells,
                idx, i, cells_with_content, ocr_calls, rejected, latex_outputs,
                exception>>

\* TeXBuilder (heyseen/core/tex_builder.py): the locals of _merge_text_blocks
\* and of _classify_text_block.  Lengths on the page are held in thousandths
\* of the page height/width, font sizes in points.
VARIABLES
    contents,           \* the page's ExtractedContent list (text is reassigned)
    blocks,             \* the page's LayoutBlock list
    a_pc,               \* position inside the builder
    pos,                \* loop index over zip(contents, blocks) (1-based)
    merged,             \* the element list under construction
    current_paragraph,  \* the open paragraph buffer
    prev_block,         \* <<>> for None, else <<block>>
    should_break,       \* the decision computed for the current block
    block_classification, \* the last value of _classify_text_block
    runs                \* per finished call: the contents it got, its result

asm_vars == <<contents, blocks, a_pc, pos, merged, current_paragraph, prev_block,
              should_break, block_classification, runs>>

AssemblerIdle ==
    /\ contents = <<>> /\ blocks = <<>> /\ a_pc = "idle" /\ pos = 1
    /\ merged = <<>> /\ current_paragraph = <<>> /\ prev_block = <<>>
    /\ should_break = FALSE /\ block_classification = "none" /\ runs = <<>>

\* _escape_latex applied to a text, and again to what it returned.
VARIABLES
    plain,              \* the text handed to the escaper
    escaped             \* what each successive call of _escape_latex returned

esc_vars == <<plain, escaped>>

EscaperIdle == plain = <<>> /\ escaped = <<>>

\* _generate_page called for the pages of a document, the calls interleaved.
VARIABLES
    pages,              \* per page: page_num, contents, blocks as handed over
    calls               \* per page: the locals of its _generate_page call

page_vars == <<pages, calls>>

PagesIdle == pages = <<>> /\ calls = <<>>

\* _refine_semantics on a list of elements, element by element.
VARIABLES
    refiner_items,      \* the list handed to the refiner
    refined_items,      \* the list the refiner is building
    r_pos,              \* loop index, 1-based; 0 before the call
    r_page_num          \* the page_num of the call; 0 without a call

ref_vars == <<refiner_items, refined_items, r_pos, r_page_num>>

RefinerIdle ==
    refiner_items = <<>> /\ refined_items = <<>> /\ r_pos = 0 /\ r_page_num = 0

\* The loop of _generate_page over the elements of a page.
VARIABLES
    render_items,       \* merged_items as the loop gets them
    render_pos,         \* loop index, 1-based; 0 before the loop
    render_st           \* page_tex, in_list, in_abstract and the exception raised

rend_vars == <<render_items, render_pos, render_st>>

RendererIdle == render_items = <<>> /\ render_pos = 0 /\ render_st = <<>>

stage_vars == <<ref_vars, rend_vars>>

StagesIdle == RefinerIdle /\ RendererIdle

tex_vars == <<asm_vars, esc_vars, page_vars, stage_vars, stage_vars>>

\* The builder is not running.
TexIdle == AssemblerIdle /\ EscaperIdle /\ PagesIdle /\ StagesIdle

vars == <<table_vars, tex_vars>>

-----------------------------------------------------------------------------
(* Arithmetic and sequence helpers                                         *)

Min2(a, b) == IF a <= b THEN a ELSE b
Max2(a, b) == IF a >= b THEN a ELSE b

SetMin(S) == CHOOSE m \in S : \A n \in S : m <= n
SetMax(S) == CHOOSE m \in S : \A n \in S : m >= n

\* A pixel quantity in model units (half pixels).
Px(n) == 2 * n

\* Python's int() on a float coordinate: truncation toward zero, in pixels.
PyInt(v) == IF v >= 0 THEN v \div 2 ELSE -((-v) \div 2)

Range(s) == {s[k] : k \in DOMAIN s}

\* Lexicographic order on integer tuples of equal length (Python tuple <).
RECURSIVE LexLess(_, _)
LexLess(a, b) ==
    IF a = <<>> \/ b = <<>> THEN FALSE
    ELSE IF Head(a) < Head(b) THEN TRUE
    ELSE IF Head(a) > Head(b) THEN FALSE
    ELSE LexLess(Tail(a), Tail(b))

\* list.sort(key=...): a stable sort.  pairs is a sequence of [k, v].
RECURSIVE InsertByKey(_, _)
InsertByKey(s, p) ==
    IF s = <<>> THEN <<p>>
    ELSE IF LexLess(p.k, Head(s).k) THEN <<p>> \o s
    ELSE <<Head(s)>> \o InsertByKey(Tail(s), p)

RECURSIVE SortPairs(_)
SortPairs(pairs) ==
    IF pairs = <<>> THEN <<>>
    ELSE InsertByKey(SortPairs(SubSeq(pairs, 1, Len(pairs) - 1)),
                     pairs[Len(pairs)])

Values(pairs) == [k \in DOMAIN pairs |-> pairs[k].v]

\* rows.sort(key=lambda b: (b[1] + b[3])/2)
SortRows(bs) ==
    Values(SortPairs([k \in DOMAIN bs |-> [k |-> <<bs[k][2] + bs[k][4]>>, v |-> bs[k]]]))

\* cols.sort(key=lambda b: (b[0] + b[2])/2)
SortCols(bs) ==
    Values(SortPairs([k \in DOMAIN bs |-> [k |-> <<bs[k][1] + bs[k][3]>>, v |-> bs[k]]]))

\* table_boxes.sort(key=lambda b: b[1])
SortTableBoxes(bs) ==
    Values(SortPairs([k \in DOMAIN bs |-> [k |-> <<bs[k][2]>>, v |-> bs[k]]]))

\* Variant of SortCells: the final sort is left out.
SortCells_NoSort(cs) == cs

\* final_cells.sort(key=lambda c: (c.row_idx, c.col_idx))
SortCells(cs) ==
    Values(SortPairs([k \in DOMAIN cs |->
                        [k |-> <<cs[k].row_idx, cs[k].col_idx>>, v |-> cs[k]]]))

-----------------------------------------------------------------------------
(* Geometry utilities.  A box is <<x0, y0, x1, y1>>.                       *)

\* The page image handed to process_table (sizes in pixels).
image == [width |-> 100, height |-> 400]

BoxPx(x0, y0, x1, y1) == <<Px(x0), Px(y0), Px(x1), Px(y1)>>

_is_same_box(b1, b2) ==
    LET Abs(v) == IF v < 0 THEN -v ELSE v
    IN  /\ Abs(b1[1] - b2[1]) < Px(2)
        /\ Abs(b1[2] - b2[2]) < Px(2)
        /\ Abs(b1[3] - b2[3]) < Px(2)
        /\ Abs(b1[4] - b2[4]) < Px(2)

\* The overlap ratio as a fraction [num, den]; 0.0 is [0, 1].
_overlap_y(box1, box2) ==
    LET y0 == Max2(box1[2], box2[2])
        y1 == Min2(box1[4], box2[4])
        h1 == box1[4] - box1[2]
        h2 == box2[4] - box2[2]
    IN  IF y1 <= y0 THEN [num |-> 0, den |-> 1]
        ELSE [num |-> y1 - y0, den |-> Min2(h1, h2)]

_overlap_x(box1, box2) ==
    LET x0 == Max2(box1[1], box2[1])
        x1 == Min2(box1[3], box2[3])
        w1 == box1[3] - box1[1]
        w2 == box2[3] - box2[1]
    IN  IF x1 <= x0 THEN [num |-> 0, den |-> 1]
        ELSE [num |-> x1 - x0, den |-> Min2(w1, w2)]

\* ratio > 0.5 for a fraction with a positive denominator
OverHalf(f) == 2 * f.num > f.den

_is_contained(box, container) ==
    LET x0 == Max2(box[1], container[1])
        y0 == Max2(box[2], container[2])
        x1 == Min2(box[3], container[3])
        y1 == Min2(box[4], container[4])
        intersection_area == (x1 - x0) * (y1 - y0)
        box_area == (box[3] - box[1]) * (box[4] - box[2])
    IN  IF x1 <= x0 \/ y1 <= y0 THEN FALSE
        ELSE IF box_area <= 0 THEN FALSE
        ELSE 2 * intersection_area > box_area


-----------------------------------------------------------------------------
(* _detect_tables: 1. collect objects                                      *)

\* Detections below this score (percent) are skipped, whatever their label.
MinScore == 50

\* Variant of Kept: a detection exactly at the threshold is skipped too.
Kept_Strict(dets) == SelectSeq(dets, LAMBDA d : ~(d.score <= MinScore))

\* if score < 0.5: continue
Kept(dets) == SelectSeq(dets, LAMBDA d : ~(d.score < MinScore))

BoxesOf(dets, labels) ==
    LET sel == SelectSeq(Kept(dets), LAMBDA d : d.label \in labels)
    IN  [k \in DOMAIN sel |-> sel[k].box]

CollectedTableBoxes(dets) == BoxesOf(dets, {"table"})
CollectedRows(dets) == BoxesOf(dets, {"table row", "table row header"})
CollectedHeaderRows(dets) == BoxesOf(dets, {"table row header"})
CollectedCols(dets) == BoxesOf(dets, {"table column"})
CollectedSpans(dets) == BoxesOf(dets, {"table spanning cell"})

-----------------------------------------------------------------------------
(* _detect_tables: 2. table regions (cluster fallback)                     *)

\* Variant of StartsNewCluster: both thresholds must be exceeded.
StartsNewCluster_And(prev, curr) ==
    LET gap == curr[2] - prev[4]
    IN  2 * gap > 3 * (prev[4] - prev[2]) /\ gap > Px(50)

\* gap > 1.5 * (prev[3] - prev[1]) or gap > 50
StartsNewCluster(prev, curr) ==
    LET gap == curr[2] - prev[4]
    IN  2 * gap > 3 * (prev[4] - prev[2]) \/ gap > Px(50)

RECURSIVE ClusterWalk(_, _, _, _)
ClusterWalk(rs, k, done, current_cluster) ==
    IF k > Len(rs) THEN Append(done, current_cluster)
    ELSE IF StartsNewCluster(rs[k - 1], rs[k])
         THEN ClusterWalk(rs, k + 1, Append(done, current_cluster), <<rs[k]>>)
         ELSE ClusterWalk(rs, k + 1, done, Append(current_cluster, rs[k]))

\* The clusters of the (already sorted) rows.
ClusterRows(rs) ==
    IF rs = <<>> THEN <<>> ELSE ClusterWalk(SortRows(rs), 2, <<>>, <<SortRows(rs)[1]>>)

\* [0, max(0, y0 - 10), image.width, min(image.height, y1 + 10)]
ClusterBox(cluster) ==
    LET y0 == SetMin({r[2] : r \in Range(cluster)})
        y1 == SetMax({r[4] : r \in Range(cluster)})
    IN  <<0, Max2(0, y0 - Px(10)), Px(image.width),
          Min2(Px(image.height), y1 + Px(10))>>

\* table_boxes after step 2; <<>> stands for the early "return []".
TableRegions(tbs, rs, cs) ==
    LET fallback == IF tbs = <<>> /\ rs # <<>>
                    THEN [k \in DOMAIN ClusterRows(rs) |-> ClusterBox(ClusterRows(rs)[k])]
                    ELSE tbs
    IN  IF fallback = <<>>
        THEN IF rs # <<>> /\ cs # <<>>
             THEN << <<0, 0, Px(image.width), Px(image.height)>> >>
             ELSE <<>>
        ELSE fallback

-----------------------------------------------------------------------------
(* _detect_tables: 3. one table region                                     *)

TableCell(bbox, row_idx, col_idx, row_span, col_span, is_header) ==
    [bbox |-> bbox, row_idx |-> row_idx, col_idx |-> col_idx,
     row_span |-> row_span, col_span |-> col_span,
     content |-> <<>>, is_header |-> is_header]

ClipBox(t_box) ==
    <<Max2(0, t_box[1]), Max2(0, t_box[2]),
      Min2(Px(image.width), t_box[3]), Min2(Px(image.height), t_box[4])>>

ContainedIn(bs, t_box) == SelectSeq(bs, LAMBDA b : _is_contained(b, t_box))

HeaderRowIndices(t_rows, hrs) ==
    {r \in 0 .. Len(t_rows) - 1 :
        \E k \in DOMAIN hrs : _is_same_box(t_rows[r + 1], hrs[k])}

Intersection(r_box, c_box) ==
    <<Max2(c_box[1], r_box[1]), Max2(c_box[2], r_box[2]),
      Min2(c_box[3], r_box[3]), Min2(c_box[4], r_box[4])>>

\* grid_map: (r_idx, c_idx) -> bbox of the row/column intersection
GridMap(t_rows, t_cols) ==
    LET keys == {rc \in (0 .. Len(t_rows) - 1) \X (0 .. Len(t_cols) - 1) :
                    LET b == Intersection(t_rows[rc[1] + 1], t_cols[rc[2] + 1])
                    IN  b[3] > b[1] /\ b[4] > b[2]}
    IN  [rc \in keys |-> Intersection(t_rows[rc[1] + 1], t_cols[rc[2] + 1])]

CoveredRows(span_box, t_rows) ==
    {r \in 0 .. Len(t_rows) - 1 : OverHalf(_overlap_y(span_box, t_rows[r + 1]))}

CoveredCols(span_box, t_cols) ==
    {c \in 0 .. Len(t_cols) - 1 : OverHalf(_overlap_x(span_box, t_cols[c + 1]))}

\* The (r, c) range a span covers; {} when it matches no row or no column.
SpanRange(span_box, t_rows, t_cols) ==
    LET cr == CoveredRows(span_box, t_rows)
        cc == CoveredCols(span_box, t_cols)
    IN  IF cr = {} \/ cc = {} THEN {}
        ELSE (SetMin(cr) .. SetMax(cr)) \X (SetMin(cc) .. SetMax(cc))

\* The merged cell of one span (its range is not empty).
SpanCell(span_box, t_rows, t_cols, grid_map, header_idx) ==
    LET cr == CoveredRows(span_box, t_rows)
        cc == CoveredCols(span_box, t_cols)
        r_start == SetMin(cr)
        r_end == SetMax(cr)
        c_start == SetMin(cc)
        c_end == SetMax(cc)
        hit == SpanRange(span_box, t_rows, t_cols) \cap DOMAIN grid_map
        gx0 == SetMin({Px(10000)} \cup {grid_map[rc][1] : rc \in hit})
        gy0 == SetMin({Px(10000)} \cup {grid_map[rc][2] : rc \in hit})
        gx1 == SetMax({0} \cup {grid_map[rc][3] : rc \in hit})
        gy1 == SetMax({0} \cup {grid_map[rc][4] : rc \in hit})
        final_bbox == IF hit # {} THEN <<gx0, gy0, gx1, gy1>> ELSE span_box
    IN  TableCell(final_bbox, r_start, c_start, r_end - r_start + 1,
                  c_end - c_start + 1, r_start \in header_idx)

\* 1. Process spanning cells first.  acc = [consumed, final_cells].
RECURSIVE ProcessSpans(_, _, _, _, _, _)
ProcessSpans(t_spans, t_rows, t_cols, grid_map, header_idx, acc) ==
    IF t_spans = <<>> THEN acc
    ELSE LET span_box == Head(t_spans)
             range == SpanRange(span_box, t_rows, t_cols)
         IN  IF range = {}
             THEN ProcessSpans(Tail(t_spans), t_rows, t_cols, grid_map, header_idx, acc)
             ELSE ProcessSpans(Tail(t_spans), t_rows, t_cols, grid_map, header_idx,
                    [consumed |-> acc.consumed \cup range,
                     final_cells |-> Append(acc.final_cells,
                        SpanCell(span_box, t_rows, t_cols, grid_map, header_idx))])

\* Variant of FillGaps: the consumed set is not looked at.
RECURSIVE FillGaps_AllOfGrid(_, _, _, _, _, _, _)
FillGaps_AllOfGrid(k, n_rows, n_cols, grid_map, consumed, header_idx, final_cells) ==
    IF k >= n_rows * n_cols THEN final_cells
    ELSE LET r_idx == k \div n_cols
             c_idx == k % n_cols
         IN  IF <<r_idx, c_idx>> \notin DOMAIN grid_map
             THEN FillGaps_AllOfGrid(k + 1, n_rows, n_cols, grid_map, consumed,
                                     header_idx, final_cells)
             ELSE FillGaps_AllOfGrid(k + 1, n_rows, n_cols, grid_map, consumed,
                                     header_idx,
                                     Append(final_cells,
                                            TableCell(grid_map[<<r_idx, c_idx>>], r_idx,
                                                      c_idx, 1, 1, r_idx \in header_idx)))

\* 2. Fill gaps with standard grid cells, row-major from position k.
RECURSIVE FillGaps(_, _, _, _, _, _, _)
FillGaps(k, n_rows, n_cols, grid_map, consumed, header_idx, final_cells) ==
    IF k >= n_rows * n_cols THEN final_cells
    ELSE LET r_idx == k \div n_cols
             c_idx == k % n_cols
         IN  IF <<r_idx, c_idx>> \in consumed \/ <<r_idx, c_idx>> \notin DOMAIN grid_map
             THEN FillGaps(k + 1, n_rows, n_cols, grid_map, consumed, header_idx,
                           final_cells)
             ELSE FillGaps(k + 1, n_rows, n_cols, grid_map, consumed, header_idx,
                           Append(final_cells,
                                  TableCell(grid_map[<<r_idx, c_idx>>], r_idx, c_idx,
                                            1, 1, r_idx \in header_idx)))

\* The locals of one iteration of the region loop.
ReconstructRegion(raw_box, rs, cs, spans, hrs) ==
    LET t_box == ClipBox(raw_box)
        t_rows == SortRows(ContainedIn(rs, t_box))
        t_cols == SortCols(ContainedIn(cs, t_box))
        t_spans == ContainedIn(spans, t_box)
        header_idx == HeaderRowIndices(t_rows, hrs)
        grid_map == GridMap(t_rows, t_cols)
        spanned == ProcessSpans(t_spans, t_rows, t_cols, grid_map, header_idx,
                                [consumed |-> {}, final_cells |-> <<>>])
        final_cells == FillGaps(0, Len(t_rows), Len(t_cols), grid_map,
                                spanned.consumed, header_idx, spanned.final_cells)
    IN  IF t_rows = <<>> \/ t_cols = <<>>
        THEN [skipped |-> TRUE, t_box |-> t_box, t_rows |-> t_rows, t_cols |-> t_cols,
              t_spans |-> t_spans, grid_map |-> <<>>, consumed |-> {},
              final_cells |-> <<>>, cells |-> <<>>]
        ELSE [skipped |-> FALSE, t_box |-> t_box, t_rows |-> t_rows, t_cols |-> t_cols,
              t_spans |-> t_spans, grid_map |-> grid_map,
              consumed |-> spanned.consumed,
              final_cells |-> final_cells, cells |-> SortCells(final_cells)]

-----------------------------------------------------------------------------
(* Text                                                                    *)

Lower == {"a", "b", "c", "d", "e", "f", "g", "h", "i", "j", "k", "l", "m",
          "n", "o", "p", "q", "r", "s", "t", "u", "v", "w", "x", "y", "z"}
Upper == {"A", "B", "C", "D", "E", "F", "G", "H", "I", "J", "K", "L", "M",
          "N", "O", "P", "Q", "R", "S", "T", "U", "V", "W", "X", "Y", "Z"}
Whitespace == {" ", "\n", "\t"}

\* The symbols that mark a cell as LaTeX command or math.
MathSymbols == {"\\", "$", "=", "^", "_", "{", "}"}

RECURSIVE LStrip(_)
LStrip(t) == IF t # <<>> /\ Head(t) \in Whitespace THEN LStrip(Tail(t)) ELSE t

RECURSIVE RStrip(_)
RStrip(t) ==
    IF t # <<>> /\ t[Len(t)] \in Whitespace THEN RStrip(SubSeq(t, 1, Len(t) - 1)) ELSE t

\* str.strip()
Strip(t) == RStrip(LStrip(t))

\* " ".join(text.split()) after newlines became spaces
RECURSIVE CollapseSpaces(_)
CollapseSpaces(t) ==
    IF t = <<>> THEN <<>>
    ELSE IF Head(t) \in Whitespace
         THEN IF LStrip(t) = <<>> THEN <<>> ELSE <<" ">> \o CollapseSpaces(LStrip(t))
         ELSE <<Head(t)>> \o CollapseSpaces(Tail(t))

\* The tag removals of _clean_content act on "<": texts here hold none.
_clean_content(text) ==
    IF text = <<>> THEN <<>> ELSE CollapseSpaces(LStrip(text))

StartsWith(t, prefix) ==
    Len(t) >= Len(prefix) /\ SubSeq(t, 1, Len(prefix)) = prefix

-----------------------------------------------------------------------------
(* _is_false_positive_table                                                *)

FilledCells(cells) == SelectSeq(cells, LAMBDA c : c.content # <<>>)

HasMathSymbol(text) == \E k \in DOMAIN text : text[k] \in MathSymbols

\* ''.join(c for c in text if c.isalpha())
AlphaOnly(text) == SelectSeq(text, LAMBDA ch : ch \in Lower \cup Upper)

\* Cells counted in valid_cells_count.
CountsAsValid(cell) ==
    LET text == Strip(cell.content)
    IN  HasMathSymbol(text) \/ AlphaOnly(text) # <<>>

\* Cells counted in lowercase_starts.
CountsAsLowercaseStart(cell) ==
    LET text == Strip(cell.content)
    IN  /\ ~HasMathSymbol(text)
        /\ AlphaOnly(text) # <<>>
        /\ AlphaOnly(text)[1] \in Lower

\* Variant of ValidatorVerdict: the one-column rule asks for more than 3 rows.
ValidatorVerdict_MoreRows(cells) ==
    LET filled_cells == FilledCells(cells)
        valid_cells_count == Len(SelectSeq(filled_cells, CountsAsValid))
        lowercase_starts == Len(SelectSeq(filled_cells, CountsAsLowercaseStart))
        columns_indices == {c.col_idx : c \in Range(cells)}
        rows_indices == {c.row_idx : c \in Range(cells)}
    IN  IF cells = <<>> THEN TRUE
        ELSE IF filled_cells = <<>> THEN TRUE
        ELSE IF valid_cells_count = 0 THEN FALSE
        ELSE IF 5 * lowercase_starts > 4 * valid_cells_count THEN TRUE
        ELSE IF Cardinality(columns_indices) <= 1 /\ Cardinality(rows_indices) > 3
             THEN TRUE
        ELSE FALSE

\* The value _is_false_positive_table returns (TRUE: not a table).
\* lowercase_starts / valid_cells_count > 0.80 is 5 * l > 4 * v.
ValidatorVerdict(cells) ==
    LET filled_cells == FilledCells(cells)
        valid_cells_count == Len(SelectSeq(filled_cells, CountsAsValid))
        lowercase_starts == Len(SelectSeq(filled_cells, CountsAsLowercaseStart))
        columns_indices == {c.col_idx : c \in Range(cells)}
        rows_indices == {c.row_idx : c \in Range(cells)}
    IN  IF cells = <<>> THEN TRUE
        ELSE IF filled_cells = <<>> THEN TRUE
        ELSE IF valid_cells_count = 0 THEN FALSE
        ELSE IF 5 * lowercase_starts > 4 * valid_cells_count THEN TRUE
        ELSE IF Cardinality(columns_indices) <= 1 /\ Cardinality(rows_indices) > 2
             THEN TRUE
        ELSE FALSE

\* Variant of ValidatorCellsAfter: the filter of the empty cells is applied to
\* the argument list itself (cells[:] = filled_cells).
ValidatorCellsAfter_InPlace(cells) == FilledCells(cells)

\* The argument list as the call leaves it: the function assigns only to its
\* locals (filled_cells, text, clean_text, the counters).
ValidatorCellsAfter(cells) == cells

\* One call: the returned value and the argument after the call.
_is_false_positive_table(cells) ==
    [result |-> ValidatorVerdict(cells), cells |-> ValidatorCellsAfter(cells)]

-----------------------------------------------------------------------------
(* _build_latex                                                            *)

\* The marking loop from cell k on: the grid, or error when a spanned slot
\* lies outside the allocated rows (IndexError on grid_state[r]).
RECURSIVE MarkCells(_, _, _)
MarkCells(cells, k, grid_state) ==
    IF k > Len(cells) THEN [error |-> FALSE, grid_state |-> grid_state]
    ELSE LET cell == cells[k]
             clean_text == _clean_content(cell.content)
             bold == /\ cell.is_header
                     /\ clean_text # <<>>
                     /\ ~StartsWith(clean_text,
                                    <<"\\", "t", "e", "x", "t", "b", "f">>)
                     /\ "$" \notin Range(clean_text)
             text == IF bold THEN <<"\\textbf{">> \o clean_text \o <<"}">>
                     ELSE clean_text
             origin == <<cell.row_idx, cell.col_idx>>
             covered == ((cell.row_idx .. cell.row_idx + cell.row_span - 1)
                            \X (cell.col_idx .. cell.col_idx + cell.col_span - 1))
                        \ {origin}
         IN  IF \E rc \in covered : rc \notin DOMAIN grid_state
             THEN [error |-> TRUE, grid_state |-> grid_state]
             ELSE MarkCells(cells, k + 1,
                    [rc \in DOMAIN grid_state |->
                        IF rc = origin
                        THEN [kind |-> "cell", text |-> text,
                              r_span |-> cell.row_span, c_span |-> cell.col_span]
                        ELSE IF rc \in covered THEN [kind |-> "occupied"]
                        ELSE grid_state[rc]])

\* The items of row r from column c on (the while loop).
RECURSIVE RowItems(_, _, _, _)
RowItems(grid_state, r, c, num_cols) ==
    IF c >= num_cols THEN <<>>
    ELSE LET cell_data == grid_state[<<r, c>>]
         IN  IF cell_data.kind \in {"None", "occupied"}
             THEN <<[text |-> <<" ">>, multirow |-> 0, multicolumn |-> 0]>>
                  \o RowItems(grid_state, r, c + 1, num_cols)
             ELSE <<[text |-> cell_data.text,
                     multirow |-> IF cell_data.r_span > 1 THEN cell_data.r_span ELSE 0,
                     multicolumn |-> IF cell_data.c_span > 1 THEN cell_data.c_span ELSE 0]>>
                  \o RowItems(grid_state, r, c + cell_data.c_span, num_cols)

\* max_row + 1: the rows allocated for grid_state.
GridRows(cells) == SetMax({c.row_idx : c \in Range(cells)}) + 1

\* max_col + 1
GridCols(cells) == SetMax({c.col_idx + c.col_span - 1 : c \in Range(cells)}) + 1

\* One call: error (IndexError raised) or the tabular as its rows of items.
_build_latex(cells) ==
    IF cells = <<>> THEN [error |-> FALSE, latex |-> <<>>]
    ELSE LET max_row == GridRows(cells) - 1
             num_cols == GridCols(cells)
             empty == [rc \in (0 .. max_row) \X (0 .. num_cols - 1) |-> [kind |-> "None"]]
             marked == MarkCells(cells, 1, empty)
         IN  IF marked.error THEN [error |-> TRUE, latex |-> <<>>]
             ELSE [error |-> FALSE,
                   latex |-> [r \in 1 .. max_row + 1 |->
                                RowItems(marked.grid_state, r - 1, 0, num_cols)]]

-----------------------------------------------------------------------------
(* process_table: the crop of a cell                                       *)

\* crop_box, in pixels
CropBox(cell) ==
    <<Max2(0, PyInt(cell.bbox[1])), Max2(0, PyInt(cell.bbox[2])),
      Min2(image.width, PyInt(cell.bbox[3])), Min2(image.height, PyInt(cell.bbox[4]))>>

\* Variant of InvalidCrop: the test is made on the box before int().
InvalidCrop_Untruncated(cell) ==
    cell.bbox[3] <= cell.bbox[1] \/ cell.bbox[4] <= cell.bbox[2]

\* crop_box[2] <= crop_box[0] or crop_box[3] <= crop_box[1]
InvalidCrop(cell) ==
    CropBox(cell)[3] <= CropBox(cell)[1] \/ CropBox(cell)[4] <= CropBox(cell)[2]

\* padded_box, pad = 12
PaddedBox(cell) ==
    <<Max2(0, CropBox(cell)[1] - 12), Max2(0, CropBox(cell)[2] - 12),
      Min2(image.width, CropBox(cell)[3] + 12), Min2(image.height, CropBox(cell)[4] + 12)>>

-----------------------------------------------------------------------------
(* Inputs                                                                  *)

Det(label, box, score) == [label |-> label, box |-> box, score |-> score]

\* The boxes the detector may report for the page, in its output order: a
\* two-row, two-column table at the top (one row only spans the right half,
\* one column ends on a half pixel), spanning cells over it, and a one-cell
\* table further down.
Candidates ==
    << Det("table row header", BoxPx(0, 10, 100, 30), 90),
       Det("table row", BoxPx(0, 30, 100, 50), 90),
       Det("table row", BoxPx(50, 30, 100, 50), 80),
       Det("table column", BoxPx(0, 10, 50, 50), 90),
       Det("table column", <<0, 20, 101, 100>>, 85),
       Det("table column", BoxPx(50, 10, 100, 50), 90),
       Det("table spanning cell", BoxPx(0, 30, 100, 50), 70),
       Det("table spanning cell", BoxPx(0, 10, 100, 30), 50),
       Det("table spanning cell", BoxPx(0, 10, 100, 30), 30),
       Det("table spanning cell", BoxPx(0, 10, 50, 50), 55),
       Det("table spanning cell", BoxPx(0, 10, 100, 50), 95),
       Det("table row", BoxPx(0, 150, 100, 170), 90),
       Det("table column", BoxPx(0, 150, 100, 170), 90),
       Det("table", BoxPx(0, 5, 100, 55), 99) >>

\* The largest number of boxes the detector reports for one page.
MaxDet == 6

RECURSIVE SeqOfSet(_)
SeqOfSet(S) == IF S = {} THEN <<>> ELSE <<SetMin(S)>> \o SeqOfSet(S \ {SetMin(S)})

\* The candidates picked by the index set S, in detector order.
Pick(S) == [k \in DOMAIN SeqOfSet(S) |-> Candidates[SeqOfSet(S)[k]]]

\* What the OCR callback may return for a crop.
OcrTexts == { <<>>, <<" ">>, <<" ", "A", "b", "\n">> }

-----------------------------------------------------------------------------
(* process_table                                                           *)

Idle ==
    /\ rows = <<>> /\ cols = <<>> /\ spanning_cells = <<>> /\ header_rows = <<>>
    /\ table_boxes = <<>> /\ clusters = <<>> /\ t_idx = 1 /\ regions = <<>>
    /\ tables_cells = <<>> /\ idx = 1 /\ i = 1 /\ cells_with_content = <<>>
    /\ ocr_calls = <<>> /\ rejected = <<>> /\ latex_outputs = <<>>
    /\ exception = "none"

Init ==
    /\ model_loaded \in BOOLEAN
    /\ \E S \in SUBSET DOMAIN Candidates :
          /\ Cardinality(S) <= MaxDet
          /\ detections = Pick(S)
    /\ pc = "start"
    /\ Idle
    /\ TexIdle

\* if not self.model: return "% Table recognition unavailable ..."
ModelUnavailable ==
    /\ pc = "start"
    /\ ~model_loaded
    /\ pc' = "unavailable"
    /\ UNCHANGED <<model_loaded, detections, rows, cols, spanning_cells, header_rows,
                   table_boxes, clusters, t_idx, regions, tables_cells, idx, i,
                   cells_with_content, ocr_calls, rejected, latex_outputs, exception>>
    /\ UNCHANGED tex_vars

\* _detect_tables, 1. Collect Objects and sort them
CollectObjects ==
    /\ pc = "start"
    /\ model_loaded
    /\ table_boxes' = SortTableBoxes(CollectedTableBoxes(detections))
    /\ rows' = SortRows(CollectedRows(detections))
    /\ header_rows' = CollectedHeaderRows(detections)
    /\ cols' = SortCols(CollectedCols(detections))
    /\ spanning_cells' = CollectedSpans(detections)
    /\ pc' = "regions"
    /\ UNCHANGED <<model_loaded, detections, clusters, t_idx, regions, tables_cells,
                   idx, i, cells_with_content, ocr_calls, rejected, latex_outputs,
                   exception>>
    /\ UNCHANGED tex_vars

\* _detect_tables, 2. Define Table Regions; without a region _detect_tables
\* returns [] and process_table returns "".
DefineTableRegions ==
    /\ pc = "regions"
    /\ clusters' = IF table_boxes = <<>> /\ rows # <<>> THEN ClusterRows(rows) ELSE <<>>
    /\ table_boxes' = TableRegions(table_boxes, rows, cols)
    /\ t_idx' = 1
    /\ pc' = IF table_boxes' = <<>> THEN "done" ELSE "region_loop"
    /\ UNCHANGED <<model_loaded, detections, rows, cols, spanning_cells, header_rows,
                   regions, tables_cells, idx, i, cells_with_content, ocr_calls,
                   rejected, latex_outputs, exception>>
    /\ UNCHANGED tex_vars

\* _detect_tables, 3. one iteration of the loop over table_boxes
ProcessRegion ==
    /\ pc = "region_loop"
    /\ t_idx <= Len(table_boxes)
    /\ LET region == ReconstructRegion(table_boxes[t_idx], rows, cols,
                                       spanning_cells, header_rows)
       IN  /\ regions' = Append(regions, region)
           /\ tables_cells' = IF region.cells # <<>>
                              THEN Append(tables_cells, region.cells)
                              ELSE tables_cells
    /\ t_idx' = t_idx + 1
    /\ UNCHANGED <<model_loaded, detections, pc, rows, cols, spanning_cells,
                   header_rows, table_boxes, clusters, idx, i, cells_with_content,
                   ocr_calls, rejected, latex_outputs, exception>>
    /\ UNCHANGED tex_vars

\* return all_tables_cells; process_table returns "" when it is empty and
\* enters its loop over the tables otherwise.
ReturnTables ==
    /\ pc = "region_loop"
    /\ t_idx > Len(table_boxes)
    /\ pc' = IF tables_cells = <<>> THEN "done" ELSE "ocr"
    /\ idx' = 1
    /\ i' = 1
    /\ cells_with_content' = <<>>
    /\ UNCHANGED <<model_loaded, detections, rows, cols, spanning_cells, header_rows,
                   table_boxes, clusters, t_idx, regions, tables_cells, ocr_calls,
                   rejected, latex_outputs, exception>>
    /\ UNCHANGED tex_vars

\* The crop of cell i is invalid: continue.
SkipCell ==
    /\ pc = "ocr"
    /\ i <= Len(tables_cells[idx])
    /\ InvalidCrop(tables_cells[idx][i])
    /\ i' = i + 1
    /\ UNCHANGED <<model_loaded, detections, pc, rows, cols, spanning_cells,
                   header_rows, table_boxes, clusters, t_idx, regions, tables_cells,
                   idx, cells_with_content, ocr_calls, rejected, latex_outputs,
                   exception>>
    /\ UNCHANGED tex_vars

\* cell.content = ocr_callback(cell_img).strip(); the callback returns text.
OcrCell ==
    /\ pc = "ocr"
    /\ i <= Len(tables_cells[idx])
    /\ ~InvalidCrop(tables_cells[idx][i])
    /\ \E text \in OcrTexts :
          /\ tables_cells' = [tables_cells EXCEPT ![idx][i].content = Strip(text)]
          /\ cells_with_content' = Append(cells_with_content, tables_cells'[idx][i])
    /\ ocr_calls' = Append(ocr_calls, [table |-> idx, cell |-> i,
                                       crop |-> PaddedBox(tables_cells[idx][i])])
    /\ i' = i + 1
    /\ UNCHANGED <<model_loaded, detections, pc, rows, cols, spanning_cells,
                   header_rows, table_boxes, clusters, t_idx, regions, idx, rejected,
                   latex_outputs, exception>>
    /\ UNCHANGED tex_vars

\* The callback raises: nothing in process_table catches it.
OcrRaises ==
    /\ pc = "ocr"
    /\ i <= Len(tables_cells[idx])
    /\ ~InvalidCrop(tables_cells[idx][i])
    /\ ocr_calls' = Append(ocr_calls, [table |-> idx, cell |-> i,
                                       crop |-> PaddedBox(tables_cells[idx][i])])
    /\ exception' = "ocr_callback"
    /\ pc' = "raised"
    /\ UNCHANGED <<model_loaded, detections, rows, cols, spanning_cells, header_rows,
                   table_boxes, clusters, t_idx, regions, tables_cells, idx, i,
                   cells_with_content, rejected, latex_outputs>>
    /\ UNCHANGED tex_vars

\* 3. Post-OCR Validation, after the last cell of the table
Validate ==
    /\ pc = "ocr"
    /\ i > Len(tables_cells[idx])
    /\ LET call == _is_false_positive_table(cells_with_content)
       IN  /\ cells_with_content' = call.cells
           /\ rejected' = IF call.result THEN Append(rejected, idx) ELSE rejected
           /\ pc' = IF call.result THEN "next" ELSE "build"
    /\ UNCHANGED <<model_loaded, detections, rows, cols, spanning_cells, header_rows,
                   table_boxes, clusters, t_idx, regions, tables_cells, idx, i,
                   ocr_calls, latex_outputs, exception>>
    /\ UNCHANGED tex_vars

\* 4. Generate LaTeX: latex_outputs.append(self._build_latex(...))
BuildLatex ==
    /\ pc = "build"
    /\ LET call == _build_latex(cells_with_content)
       IN  /\ latex_outputs' = IF call.error THEN latex_outputs
                               ELSE Append(latex_outputs, call.latex)
           /\ exception' = IF call.error THEN "IndexError" ELSE exception
           /\ pc' = IF call.error THEN "raised" ELSE "next"
    /\ UNCHANGED <<model_loaded, detections, rows, cols, spanning_cells, header_rows,
                   table_boxes, clusters, t_idx, regions, tables_cells, idx, i,
                   cells_with_content, ocr_calls, rejected>>
    /\ UNCHANGED tex_vars

\* The next table of the loop, or return "\n\n".join(latex_outputs).
NextTable ==
    /\ pc = "next"
    /\ IF idx < Len(tables_cells)
       THEN /\ idx' = idx + 1
            /\ i' = 1
            /\ cells_with_content' = <<>>
            /\ pc' = "ocr"
       ELSE /\ pc' = "done"
            /\ UNCHANGED <<idx, i, cells_with_content>>
    /\ UNCHANGED <<model_loaded, detections, rows, cols, spanning_cells, header_rows,
                   table_boxes, clusters, t_idx, regions, tables_cells, ocr_calls,
                   rejected, latex_outputs, exception>>
    /\ UNCHANGED tex_vars

Next ==
    \/ ModelUnavailable
    \/ CollectObjects
    \/ DefineTableRegions
    \/ ProcessRegion
    \/ ReturnTables
    \/ SkipCell
    \/ OcrCell
    \/ OcrRaises
    \/ Validate
    \/ BuildLatex
    \/ NextTable

Spec == Init /\ [][Next]_vars

-----------------------------------------------------------------------------
(* Properties of the table pipeline                                        *)

\* _detect_tables has returned.
DetectionDone ==
    \/ pc \in {"ocr", "build", "next", "raised", "done"}
    \/ pc = "region_loop" /\ t_idx > Len(table_boxes)

\* The regions that produced a table, aligned with tables_cells.
ProducedRegions == SelectSeq(regions, LAMBDA r : r.cells # <<>>)

\* The (row, col) indices a cell covers.
CoveredBy(cell) ==
    (cell.row_idx .. cell.row_idx + cell.row_span - 1)
        \X (cell.col_idx .. cell.col_idx + cell.col_span - 1)

\* Table t is at or past its validation.
AtValidation(t) ==
    /\ t \in DOMAIN tables_cells
    /\ \/ t < idx
       \/ /\ t = idx
          /\ \/ pc \in {"build", "next", "done"}
             \/ pc = "raised" /\ exception = "IndexError"
             \/ pc = "ocr" /\ i > Len(tables_cells[idx])

\* The cells of table t the callback was invoked for, in call order.
CallsOf(t) ==
    LET mine == SelectSeq(ocr_calls, LAMBDA c : c.table = t)
    IN  [k \in DOMAIN mine |-> mine[k].cell]

(* C1: grid partition.  In every table returned by the reconstructor the   *)
(* ranges covered by its cells cover every index of the numRows x numCols  *)
(* space of its region, and no index is covered by two cells.              *)
C1_GridPartition ==
    \A t \in DOMAIN tables_cells :
        LET region == ProducedRegions[t]
            cells == tables_cells[t]
        IN  \A rc \in (0 .. Len(region.t_rows) - 1) \X (0 .. Len(region.t_cols) - 1) :
                Cardinality({k \in DOMAIN cells : rc \in CoveredBy(cells[k])}) = 1

(* C2: reading order.  In every returned table, adjacent cells a, b of the *)
(* cell list satisfy (a.row, a.col) <= (b.row, b.col) lexicographically.   *)
C2_ReadingOrder ==
    \A t \in DOMAIN tables_cells :
        \A k \in 1 .. Len(tables_cells[t]) - 1 :
            LET a == tables_cells[t][k]
                b == tables_cells[t][k + 1]
            IN  \/ a.row_idx < b.row_idx
                \/ a.row_idx = b.row_idx /\ a.col_idx <= b.col_idx

\* A returned table whose cells were generated out of reading order (a
\* spanning cell of a lower row before the 1x1 cells above it).
C2_Witness ==
    /\ DetectionDone
    /\ \E t \in DOMAIN tables_cells :
          /\ ProducedRegions[t].final_cells # ProducedRegions[t].cells
          /\ \E k \in DOMAIN tables_cells[t] : tables_cells[t][k].row_span
                                                + tables_cells[t][k].col_span > 2
          /\ \E k \in DOMAIN tables_cells[t] : tables_cells[t][k].row_span
                                                + tables_cells[t][k].col_span = 2

(* C3: OCR failure is not fatal.  An exception raised by the OCR callback  *)
(* is never propagated to the caller of process_table: the cell is left    *)
(* empty and the loop goes on.                                             *)
C3_OcrFailureNotFatal ==
    /\ exception # "ocr_callback"
    /\ (pc = "raised" => exception = "IndexError")

(* C4 as stated: when a table is validated, the callback has been invoked  *)
(* exactly once for every cell of the table, in reading order.             *)
C4_EveryCellOcrd ==
    \A t \in DOMAIN tables_cells :
        AtValidation(t) => CallsOf(t) = [k \in 1 .. Len(tables_cells[t]) |-> k]

\* The truncated, clamped crop of a cell has positive width and height.
C4_HasCrop(cell) ==
    /\ CropBox(cell)[1] < CropBox(cell)[3]
    /\ CropBox(cell)[2] < CropBox(cell)[4]

\* The cells among the first n of table t that have a crop, in list order.
C4_Croppable(t, n) ==
    SelectSeq([k \in 1 .. n |-> k], LAMBDA k : C4_HasCrop(tables_cells[t][k]))

(* C4, amended: the callback is invoked one call at a time, table after    *)
(* table, exactly once for every cell whose crop is not empty and for no   *)
(* other, in the table's reading order; when a table is validated all its  *)
(* calls have been made, and it gets none afterwards.  Cells with an empty *)
(* crop are skipped.                                                       *)
C4_OcrCallsInReadingOrder ==
    /\ \A k \in 1 .. Len(ocr_calls) - 1 : ocr_calls[k].table <= ocr_calls[k + 1].table
    /\ \A t \in DOMAIN tables_cells :
          /\ AtValidation(t) => CallsOf(t) = C4_Croppable(t, Len(tables_cells[t]))
          /\ (DetectionDone /\ t > idx) => CallsOf(t) = <<>>
          /\ (pc = "ocr" /\ t = idx) =>
                CallsOf(t) = C4_Croppable(t, Min2(i - 1, Len(tables_cells[t])))
          /\ \A k \in 1 .. Len(CallsOf(t)) - 1 :
                LET a == tables_cells[t][CallsOf(t)[k]]
                    b == tables_cells[t][CallsOf(t)[k + 1]]
                IN  /\ CallsOf(t)[k] < CallsOf(t)[k + 1]
                    /\ \/ a.row_idx < b.row_idx
                       \/ a.row_idx = b.row_idx /\ a.col_idx <= b.col_idx

\* A validated table of which one cell was skipped for its empty crop and
\* two were OCR'd.
C4_Witness ==
    \E t \in DOMAIN tables_cells :
        /\ AtValidation(t)
        /\ pc = "build"
        /\ Len(CallsOf(t)) >= 2
        /\ Len(CallsOf(t)) < Len(tables_cells[t])

\* The boxes of the detections with one of the labels, whatever their score.
C5_Boxes(labels) ==
    LET sel == SelectSeq(detections, LAMBDA d : d.label \in labels)
    IN  [k \in DOMAIN sel |-> sel[k].box]

\* The scenario: two row boxes (one below the other without a gap) and two
\* column boxes (side by side) of one table whose four intersections have
\* positive area, one spanning-cell box that covers row 0 (and not row 1)
\* across both columns, no table box; non-spanning scores >= 0.5 and the
\* spanning score >= min_span_score.
C5_Scenario(min_span_score) ==
    LET r == SortRows(C5_Boxes({"table row", "table row header"}))
        c == SortCols(C5_Boxes({"table column"}))
        s == C5_Boxes({"table spanning cell"})
        region == ClipBox(ClusterBox(r))
    IN  /\ Len(detections) = 5
        /\ Len(r) = 2 /\ Len(c) = 2 /\ Len(s) = 1
        /\ \A k \in DOMAIN detections :
              IF detections[k].label = "table spanning cell"
              THEN detections[k].score >= min_span_score
              ELSE detections[k].score >= 50
        /\ r[2][2] - r[1][4] <= 0
        /\ c[1][3] - c[2][1] <= Px(1)
        /\ \A b \in Range(r) \cup Range(c) \cup Range(s) : _is_contained(b, region)
        /\ \A rb \in Range(r) : \A cb \in Range(c) :
              /\ Min2(rb[3], cb[3]) > Max2(rb[1], cb[1])
              /\ Min2(rb[4], cb[4]) > Max2(rb[2], cb[2])
        /\ OverHalf(_overlap_y(s[1], r[1]))
        /\ ~OverHalf(_overlap_y(s[1], r[2]))
        /\ OverHalf(_overlap_x(s[1], c[1]))
        /\ OverHalf(_overlap_x(s[1], c[2]))

\* Exactly 3 cells: colSpan 2 at (0,0) and 1x1 cells at (1,0) and (1,1).
C5_ThreeCells ==
    /\ Len(tables_cells) = 1
    /\ [k \in DOMAIN tables_cells[1] |->
            <<tables_cells[1][k].row_idx, tables_cells[1][k].col_idx,
              tables_cells[1][k].row_span, tables_cells[1][k].col_span>>]
       = << <<0, 0, 1, 2>>, <<1, 0, 1, 1>>, <<1, 1, 1, 1>> >>

C10_RendererNeverFails ==
    /\ pc = "build" =>
          \A k \in DOMAIN cells_with_content :
              CoveredBy(cells_with_content[k])
                  \subseteq (0 .. GridRows(cells_with_content) - 1)
                                \X (0 .. GridCols(cells_with_content) - 1)
    /\ exception # "IndexError"

-----------------------------------------------------------------------------
(* The row-cluster fallback on its own: pages with row boxes only          *)

\* The largest number of row boxes on such a page.
MaxClusterRows == 3

\* Row heights and vertical gaps, in pixels, around both thresholds
\* (1.5 x 10 = 15, 1.5 x 40 = 60, and 50).
RowHeights == {10, 40}
RowGaps == {15, 20, 50, 55, 60, 70}

\* n stacked row boxes with heights hs and gaps gs, top to bottom.
RECURSIVE StackedRows(_, _, _, _)
StackedRows(k, hs, gs, top) ==
    IF k > Len(hs) THEN <<>>
    ELSE <<Det("table row", BoxPx(0, top, 100, top + hs[k]), 90)>>
         \o StackedRows(k + 1, hs, gs,
                        top + hs[k] + (IF k <= Len(gs) THEN gs[k] ELSE 0))

Reversed(s) == [k \in DOMAIN s |-> s[Len(s) + 1 - k]]

InitCluster ==
    /\ model_loaded = TRUE
    /\ \E n \in 1 .. MaxClusterRows :
          \E hs \in [1 .. n -> RowHeights], gs \in [1 .. n - 1 -> RowGaps],
             bottom_up \in BOOLEAN :
              detections = IF bottom_up THEN Reversed(StackedRows(1, hs, gs, 0))
                           ELSE StackedRows(1, hs, gs, 0)
    /\ pc = "start"
    /\ Idle
    /\ TexIdle

\* Without a column box no region yields a table: the steps of Next that can
\* be taken from InitCluster.
NextCluster ==
    \/ CollectObjects
    \/ DefineTableRegions
    \/ ProcessRegion
    \/ ReturnTables

SpecCluster == InitCluster /\ [][NextCluster]_vars

\* The positions, in the concatenation of the clusters, where one starts.
RECURSIVE ClusterStarts(_, _)
ClusterStarts(cs, offset) ==
    IF cs = <<>> THEN {}
    ELSE {offset + 1} \cup ClusterStarts(Tail(cs), offset + Len(Head(cs)))

RECURSIVE Flatten(_)
Flatten(cs) == IF cs = <<>> THEN <<>> ELSE Head(cs) \o Flatten(Tail(cs))

\* The fallback has run: no table box was detected and rows exist.
C6_FallbackRan ==
    /\ pc \in {"region_loop", "done"}
    /\ CollectedTableBoxes(detections) = <<>>
    /\ rows # <<>>

\* The clusters split the sorted rows exactly where the gap exceeds max/min.
C6_SplitsWhere(Exceeds(_, _)) ==
    /\ Flatten(clusters) = rows
    /\ \A k \in 1 .. Len(rows) - 1 :
          rows[k][2] + rows[k][4] <= rows[k + 1][2] + rows[k + 1][4]
    /\ \A k \in 2 .. Len(rows) :
          (k \in ClusterStarts(clusters, 0))
              <=> Exceeds(rows[k][2] - rows[k - 1][4], rows[k - 1][4] - rows[k - 1][2])
    /\ Len(table_boxes) = Len(clusters)

(* C6 as stated: a new cluster is started exactly when the gap exceeds     *)
(* max(1.5 x height(prev), 50); each cluster becomes one table region.     *)
C6_ClusterRuleMax ==
    C6_FallbackRan =>
        C6_SplitsWhere(LAMBDA gap, h : 2 * gap > Max2(3 * h, 2 * Px(50)))

(* C6, amended: walking the rows sorted by vertical center, a new cluster  *)
(* is started between prev and curr exactly when the gap curr.top -        *)
(* prev.bottom exceeds 1.5 x height(prev) or exceeds 50, that is, exceeds  *)
(* min(1.5 x height(prev), 50); each cluster becomes one table region.     *)
C6_ClusterRule ==
    C6_FallbackRan =>
        C6_SplitsWhere(LAMBDA gap, h : 2 * gap > Min2(3 * h, 2 * Px(50)))

\* Three rows: the first gap exceeds only one of the two thresholds and
\* splits, the second exceeds neither and does not.
C6_Witness ==
    /\ C6_FallbackRan
    /\ Len(rows) = 3
    /\ Len(clusters) = 2
    /\ Len(clusters[1]) = 1
    /\ LET gap == rows[2][2] - rows[1][4]
           h == rows[1][4] - rows[1][2]
       IN  (2 * gap > 3 * h) # (gap > Px(50))

-----------------------------------------------------------------------------
(* The validator and the renderer on OCR-filled grids                      *)

\* The largest number of cells of such a grid.
MaxValCells == 5

\* What the stripped OCR text of a cell may be: nothing, prose, a label, a
\* number, math.
ValTexts == { <<>>, <<"t", "h", "e">>, <<"A", "b">>, <<"1", "2">>, <<"$", "x", "$">> }

\* The detections of a regular grid of n_rows x n_cols boxes.
GridDetections(n_rows, n_cols) ==
    [k \in 1 .. n_rows |->
        Det("table row", BoxPx(0, 10 + 20 * (k - 1), 100, 10 + 20 * k), 90)]
    \o [k \in 1 .. n_cols |->
        Det("table column", BoxPx(50 * (k - 1), 10, 50 * k, 10 + 20 * n_rows), 90)]

\* process_table at the end of the OCR loop of the one table of such a page.
InitValidator ==
    /\ model_loaded = TRUE
    /\ \E n_rows \in 1 .. MaxValCells, n_cols \in 1 .. 2 :
          /\ n_rows * n_cols <= MaxValCells
          /\ detections = GridDetections(n_rows, n_cols)
    /\ table_boxes = TableRegions(SortTableBoxes(CollectedTableBoxes(detections)),
                                  SortRows(CollectedRows(detections)),
                                  SortCols(CollectedCols(detections)))
    /\ rows = SortRows(CollectedRows(detections))
    /\ header_rows = CollectedHeaderRows(detections)
    /\ cols = SortCols(CollectedCols(detections))
    /\ spanning_cells = CollectedSpans(detections)
    /\ clusters = ClusterRows(rows)
    /\ regions = <<ReconstructRegion(table_boxes[1], rows, cols, spanning_cells,
                                     header_rows)>>
    /\ t_idx = 2
    /\ \E texts \in [DOMAIN regions[1].cells -> ValTexts] :
          tables_cells = <<[k \in DOMAIN regions[1].cells |->
                              [regions[1].cells[k] EXCEPT !.content = texts[k]]]>>
    /\ idx = 1
    /\ i = Len(tables_cells[1]) + 1
    /\ cells_with_content = tables_cells[1]
    /\ ocr_calls = [k \in DOMAIN tables_cells[1] |->
                      [table |-> 1, cell |-> k, crop |-> PaddedBox(tables_cells[1][k])]]
    /\ rejected = <<>>
    /\ latex_outputs = <<>>
    /\ exception = "none"
    /\ pc = "ocr"
    /\ TexIdle

\* The steps of Next that can be taken from InitValidator.
NextValidator ==
    \/ Validate
    \/ BuildLatex
    \/ NextTable

SpecValidator == InitValidator /\ [][NextValidator]_vars

\* Table idx has been validated.
Validated == pc \in {"build", "next", "done"}

\* The filled cells without math/markup-control character that have an
\* alphabetic character, by position, and those starting lowercase.
C7_Eligible(cells) ==
    {k \in DOMAIN cells :
        /\ cells[k].content # <<>>
        /\ \A n \in DOMAIN cells[k].content : cells[k].content[n] \notin MathSymbols
        /\ \E n \in DOMAIN cells[k].content : cells[k].content[n] \in Lower \cup Upper}

C7_LowercaseFirst(cells) ==
    {k \in C7_Eligible(cells) :
        LET first == SetMin({n \in DOMAIN cells[k].content :
                                cells[k].content[n] \in Lower \cup Upper})
        IN  cells[k].content[first] \in Lower}

(* C7: validator lowercase rule.  A content-filled table is rejected when, *)
(* among the filled cells that contain no math/markup-control character    *)
(* and have an alphabetic character, more than 80% start lowercase; cells  *)
(* with math/markup-control characters count in neither side of the ratio. *)
C7_LowercaseRule ==
    (/\ Validated
     /\ C7_Eligible(cells_with_content) # {}
     /\ 5 * Cardinality(C7_LowercaseFirst(cells_with_content))
            > 4 * Cardinality(C7_Eligible(cells_with_content)))
        => idx \in Range(rejected)

\* At most 1 distinct column index and more than 2 distinct row indices.
C8_SingleColumn(cells) ==
    /\ Cardinality({cells[k].col_idx : k \in DOMAIN cells}) <= 1
    /\ Cardinality({cells[k].row_idx : k \in DOMAIN cells}) > 2

C9_ValidatorReadOnly ==
    [][(pc = "ocr" /\ pc' # "ocr" /\ pc' # "raised") =>
          /\ pc' \in {"build", "next"}
          /\ cells_with_content' = cells_with_content
          /\ tables_cells' = tables_cells]_vars

\* A validated (accepted) table with an empty and a filled cell.
C9_Witness ==
    /\ pc = "build"
    /\ \E k \in DOMAIN cells_with_content : cells_with_content[k].content = <<>>
    /\ \E k \in DOMAIN cells_with_content : cells_with_content[k].content # <<>>
    /\ cells_with_content = tables_cells[idx]

-----------------------------------------------------------------------------
(* TeXBuilder: text predicates                                             *)

Digits == {"0", "1", "2", "3", "4", "5", "6", "7", "8", "9"}

\* sub in t
Contains(t, sub) ==
    \E k \in 1 .. Len(t) - Len(sub) + 1 : SubSeq(t, k, k + Len(sub) - 1) = sub

\* t.endswith(suffix)
EndsWith(t, suffix) ==
    Len(t) >= Len(suffix) /\ SubSeq(t, Len(t) - Len(suffix) + 1, Len(t)) = suffix

\* The number of leading characters of t outside S.
RECURSIVE PrefixLen(_, _)
PrefixLen(t, S) ==
    IF t = <<>> \/ Head(t) \in S THEN 0 ELSE 1 + PrefixLen(Tail(t), S)

\* t up to its first character in S, and t from that character on.
TakeUntil(t, S) == SubSeq(t, 1, PrefixLen(t, S))
DropUntil(t, S) == SubSeq(t, PrefixLen(t, S) + 1, Len(t))

\* \d+([seps]\d+)* over the whole of s: digit groups joined by one separator
IsDigitGroups(s, Seps) ==
    /\ s # <<>>
    /\ s[1] \in Digits
    /\ s[Len(s)] \in Digits
    /\ \A n \in DOMAIN s : s[n] \in Digits \cup Seps
    /\ \A n \in 1 .. Len(s) - 1 : ~(s[n] \in Seps /\ s[n + 1] \in Seps)

\* " ".join(text.split())
NormalizeSpaces(t) == CollapseSpaces(LStrip(t))

\* sep.join(parts)
RECURSIVE Join(_, _)
Join(parts, sep) ==
    IF parts = <<>> THEN <<>>
    ELSE IF Len(parts) = 1 THEN parts[1]
    ELSE parts[1] \o sep \o Join(Tail(parts), sep)

-----------------------------------------------------------------------------
(* _classify_text_block                                                    *)

\* A LayoutBlock.  raw_label "" and font_size 0 stand for None.
LayoutBlock(x0, y0, y1, block_type, raw_label, font_size, is_bold, page_num) ==
    [x0 |-> x0, y0 |-> y0, y1 |-> y1, block_type |-> block_type,
     raw_label |-> raw_label, font_size |-> font_size, is_bold |-> is_bold,
     page_num |-> page_num]

\* text_start and text_start[0].islower()
is_lowercase_start(text) == Strip(text) # <<>> /\ Strip(text)[1] \in Lower

\* re.match(r'^(\d+(\.\d+)*|[IVX]+\.|[A-Z]\.)\s+[A-Z...]', text_start): the
\* enumerant is the text up to the first whitespace (texts here hold no
\* accented letter).
section_pattern(text_start) ==
    LET enumerant == TakeUntil(text_start, Whitespace)
        rest == LStrip(DropUntil(text_start, Whitespace))
        n == Len(enumerant)
    IN  /\ n < Len(text_start)
        /\ rest # <<>>
        /\ rest[1] \in Upper
        /\ \/ IsDigitGroups(enumerant, {"."})
           \/ /\ n >= 2
              /\ enumerant[n] = "."
              /\ \A m \in 1 .. n - 1 : enumerant[m] \in {"I", "V", "X"}
           \/ n = 2 /\ enumerant[1] \in Upper /\ enumerant[2] = "."

\* re.match(r'^(19|20)\d{2}', text_start)
YearStart(text_start) ==
    /\ Len(text_start) >= 4
    /\ SubSeq(text_start, 1, 2) \in {<<"1", "9">>, <<"2", "0">>}
    /\ text_start[3] \in Digits
    /\ text_start[4] \in Digits

\* text_start.split(' ')[0].count('.')
dot_count(text_start) ==
    LET first == TakeUntil(text_start, {" "})
    IN  Cardinality({n \in DOMAIN first : first[n] = "."})

\* Variant of FontRules: the four font thresholds are inclusive.
FontRules_Inclusive(block, text_len) ==
    IF ~(text_len < 80 /\ block.y0 < 300) THEN "none"
    ELSE IF block.font_size # 0
    THEN IF block.is_bold /\ block.font_size >= 16 THEN "title"
         ELSE IF block.is_bold /\ block.font_size >= 13 THEN "section"
         ELSE IF block.font_size >= 20 THEN "title"
         ELSE IF block.font_size >= 17 THEN "section"
         ELSE "none"
    ELSE IF block.y0 < 50 /\ text_len < 40 THEN "title"
         ELSE IF text_len < 30 /\ block.y0 < 100 THEN "section"
         ELSE "none"

\* The font and position rules for short text in the upper page; "none" when
\* control falls through.
FontRules(block, text_len) ==
    IF ~(text_len < 80 /\ block.y0 < 300) THEN "none"
    ELSE IF block.font_size # 0
    THEN IF block.is_bold /\ block.font_size > 16 THEN "title"
         ELSE IF block.is_bold /\ block.font_size > 13 THEN "section"
         ELSE IF block.font_size > 20 THEN "title"
         ELSE IF block.font_size > 17 THEN "section"
         ELSE "none"
    ELSE IF block.y0 < 50 /\ text_len < 40 THEN "title"
         ELSE IF text_len < 30 /\ block.y0 < 100 THEN "section"
         ELSE "none"

\* Phase 2.6: title heuristic fallback
TitleFallback(block, text_len) ==
    /\ block.page_num = 0 /\ block.y0 < 150 /\ text_len > 20 /\ text_len < 200
    /\ block.raw_label \notin {"Figure", "Table", "Page-header"}
    /\ (block.is_bold \/ block.y0 < 100)

\* The character U+2022 as one character of a text.
Bullet == "U+2022"

\* text.strip()[:3].startswith((bullet + " ", "- ", "* ", "1.", "a.", "i."))
ListStart(text) ==
    LET start == SubSeq(Strip(text), 1, Min2(3, Len(Strip(text))))
    IN  \E prefix \in {<<Bullet, " ">>, <<"-", " ">>, <<"*", " ">>,
                       <<"1", ".">>, <<"a", ".">>, <<"i", ".">>} :
            StartsWith(start, prefix)

\* The heuristics applied when the raw label does not decide.
Heuristics(block, text) ==
    LET text_start == Strip(text)
        text_len == Len(text_start)
    IN  IF "$" \in Range(text) \/ Contains(text, <<"\\", "[">>)
           \/ Contains(text, <<"\\", "(">>)
        THEN "text"
        ELSE IF is_lowercase_start(text) THEN "text"
        ELSE IF section_pattern(text_start) /\ text_len < 80
        THEN IF YearStart(text_start) THEN "text"
             ELSE IF text_start[1] \in Digits /\ dot_count(text_start) > 1
                  THEN "subsection"
             ELSE "section"
        ELSE IF FontRules(block, text_len) # "none" THEN FontRules(block, text_len)
        ELSE IF TitleFallback(block, text_len) THEN "title"
        ELSE IF ListStart(text) THEN "list-item"
        ELSE "text"

\* Variant of _classify_text_block: the raw label is not looked at.
ClassifyByHeuristicsOnly(block, text) == Heuristics(block, text)

_classify_text_block(block, text) ==
    IF block.raw_label = "Title" THEN "title"
    ELSE IF block.raw_label = "Section-header"
    THEN IF is_lowercase_start(text) THEN "text" ELSE "section"
    ELSE IF block.raw_label = "List-item" THEN "list-item"
    ELSE Heuristics(block, text)

-----------------------------------------------------------------------------
(* _merge_text_blocks: one iteration of the loop over zip(contents, blocks) *)

\* An ExtractedContent; <<>> stands for None or "".
ExtractedContent(text, latex, image_path) ==
    [text |-> text, latex |-> latex, image_path |-> image_path]

\* An element of merged; absent keys are <<>>.
Element(type, text, latex, image_path, metadata) ==
    [type |-> type, text |-> text, latex |-> latex, image_path |-> image_path,
     metadata |-> metadata]

\* Variant of ParagraphOf: the lines are joined without a space.
ParagraphOf_NoSpace(buffer) == Element("paragraph", Join(buffer, <<>>), <<>>, <<>>, <<>>)

\* {'type': 'paragraph', 'text': ' '.join(current_paragraph)}
ParagraphOf(buffer) == Element("paragraph", Join(buffer, <<" ">>), <<>>, <<>>, <<>>)

\* merged after "if current_paragraph: merged.append({'type': 'paragraph', ...})"
Flush(elements, buffer) ==
    IF buffer = <<>> THEN elements ELSE Append(elements, ParagraphOf(buffer))

\* noise_pattern.match(text): ^\s*\d+\s*$
noise_pattern(text) ==
    Strip(text) # <<>> /\ \A n \in DOMAIN Strip(text) : Strip(text)[n] \in Digits

\* 0. Noise cleaning: a standalone page number at the top or the bottom
IsNoise(content, block) ==
    /\ content.text # <<>>
    /\ noise_pattern(content.text)
    /\ (block.y0 < 100 \/ block.y0 > 900)

\* trailing_num_re.match(stripped): ^([^\.]+?)\s+(\d+(\.\d+)*)$ gives the text
\* before the last whitespace run and the number after it.
trailing_num_re(stripped) ==
    LET ws == {n \in DOMAIN stripped : stripped[n] \in Whitespace}
        last == IF ws = {} THEN 0 ELSE SetMax(ws)
        text_part == RStrip(SubSeq(stripped, 1, last))
        num_part == SubSeq(stripped, last + 1, Len(stripped))
    IN  [matched |-> /\ ws # {}
                     /\ text_part # <<>>
                     /\ "." \notin Range(text_part)
                     /\ IsDigitGroups(num_part, {"."}),
         text_part |-> text_part, num_part |-> num_part]

\* 0.1 Structural repair: content.text after the "Text Number" swap
RepairedText(text) ==
    LET m == trailing_num_re(Strip(text))
    IN  IF /\ text # <<>>
           /\ Len(text) < 80
           /\ m.matched
           /\ (m.text_part[1] \in Upper
               \/ Contains(m.text_part, <<"T", "r", "a", "n", "g">>))
        THEN m.num_part \o <<" ">> \o m.text_part
        ELSE text

\* eq_num_pattern.match(text).group(1), <<>> without a match:
\* ^\s*[\(\[]\s*(\d+(?:[\.\s]\d+)*)\s*[\)\]][\.\,\;]?\s*$
eq_num_pattern(text) ==
    LET t == Strip(text)
        n == Len(t)
        closer == IF n >= 1 /\ t[n] \in {".", ",", ";"} THEN n - 1 ELSE n
        inner == Strip(SubSeq(t, 2, closer - 1))
    IN  IF /\ closer >= 3
           /\ t[1] \in {"(", "["}
           /\ t[closer] \in {")", "]"}
           /\ IsDigitGroups(inner, {"."} \cup Whitespace)
        THEN inner
        ELSE <<>>

\* f" \\tag{{{tag}}}"
TagMarkup(tag) == <<" ", "\\", "t", "a", "g", "{">> \o tag \o <<"}">>

\* Variant of IsTrailingTag: the element emitted last may be of any type.
IsTrailingTag_AnyElement(text, buffer, elements) ==
    /\ text # <<>>
    /\ eq_num_pattern(text) # <<>>
    /\ buffer = <<>>
    /\ elements # <<>>

\* 0.5 The block is a tag of the math element emitted last: it is consumed.
IsTrailingTag(text, buffer, elements) ==
    /\ text # <<>>
    /\ eq_num_pattern(text) # <<>>
    /\ buffer = <<>>
    /\ elements # <<>>
    /\ elements[Len(elements)].type = "math"

\* prev_text.endswith(('.', '!', '?', ':')) or prev_text.endswith(('."', '!"', '?"'))
EndsSentence(prev_text) ==
    \/ \E e \in {<<".">>, <<"!">>, <<"?">>, <<":">>} : EndsWith(prev_text, e)
    \/ \E e \in {<<".", "\"">>, <<"!", "\"">>, <<"?", "\"">>} : EndsWith(prev_text, e)

\* Uppercase header: upper_chars / total_alpha > 0.8, 3 < len < 150
IsUppercaseHeader(text) ==
    LET text_strip == Strip(text)
        upper_chars == Cardinality({n \in DOMAIN text_strip : text_strip[n] \in Upper})
        total_alpha == Cardinality({n \in DOMAIN text_strip :
                                       text_strip[n] \in Lower \cup Upper})
    IN  /\ text # <<>>
        /\ total_alpha > 0
        /\ 5 * upper_chars > 4 * total_alpha
        /\ Len(text_strip) > 3
        /\ Len(text_strip) < 150

\* Variant of BreakDecision: the 4% gap is looked at before the hyphen.
BreakDecision_GapFirst(text, block, prev, buffer) ==
    LET v_gap == block.y0 - prev.y1
        x_diff == IF block.x0 >= prev.x0 THEN block.x0 - prev.x0 ELSE prev.x0 - block.x0
        prev_text == Strip(buffer[Len(buffer)])
    IN  IF x_diff > 100 THEN TRUE
        ELSE IF v_gap > 100 THEN TRUE
        ELSE IF IsUppercaseHeader(text) THEN TRUE
        ELSE IF v_gap > 40 THEN TRUE
        ELSE IF EndsWith(prev_text, <<"-">>) THEN FALSE
        ELSE IF ~EndsSentence(prev_text) THEN FALSE
        ELSE block.block_type # prev.block_type

\* The value of should_break after the decision logic (prev is a block).
BreakDecision(text, block, prev, buffer) ==
    LET v_gap == block.y0 - prev.y1
        x_diff == IF block.x0 >= prev.x0 THEN block.x0 - prev.x0 ELSE prev.x0 - block.x0
        is_large_gap == v_gap > 40
        is_huge_gap == v_gap > 100
        is_col_change == x_diff > 100
        prev_text == Strip(buffer[Len(buffer)])
    IN  IF is_col_change THEN TRUE
        ELSE IF is_huge_gap THEN TRUE
        ELSE IF IsUppercaseHeader(text) THEN TRUE
        ELSE IF EndsWith(prev_text, <<"-">>) THEN FALSE
        ELSE IF ~EndsSentence(prev_text) THEN is_large_gap
        ELSE IF is_large_gap THEN TRUE
        ELSE block.block_type # prev.block_type

\* should_break: False unless "prev_block and current_paragraph"
ShouldBreak(text, block, prev, buffer) ==
    IF prev # <<>> /\ buffer # <<>> THEN BreakDecision(text, block, prev[1], buffer)
    ELSE FALSE

Structural == {"title", "section", "subsection", "list-item"}

\* Variant of StructuralStep: the element is appended before the flush.
StructuralStep_ElementFirst(elements, buffer, classification, text, block) ==
    Flush(Append(elements,
                 Element(classification, NormalizeSpaces(text), <<>>, <<>>,
                         <<[raw_label |-> block.raw_label, font_size |-> block.font_size,
                            is_bold |-> block.is_bold]>>)),
          buffer)

\* merged after a structural block: flush the buffer, then the element.
StructuralStep(elements, buffer, classification, text, block) ==
    Append(Flush(elements, buffer),
           Element(classification, NormalizeSpaces(text), <<>>, <<>>,
                   <<[raw_label |-> block.raw_label, font_size |-> block.font_size,
                      is_bold |-> block.is_bold]>>))

\* Variant of TextStep: a line of regular text is appended to the buffer and
\* the previous block stays what it was.
TextStep_PrevBlockKept(st, text, block) ==
    LET classification == _classify_text_block(block, text)
        broke == ShouldBreak(text, block, st.prev_block, st.current_paragraph)
    IN  IF classification \in Structural
        THEN [st EXCEPT !.merged = StructuralStep(st.merged, st.current_paragraph,
                                                  classification, text, block),
                        !.current_paragraph = <<>>,
                        !.prev_block = <<block>>,
                        !.should_break = broke,
                        !.block_classification = classification]
        ELSE [st EXCEPT !.merged = IF broke THEN Flush(st.merged, st.current_paragraph)
                                   ELSE st.merged,
                        !.current_paragraph =
                            Append(IF broke THEN <<>> ELSE st.current_paragraph,
                                   NormalizeSpaces(text)),
                        !.should_break = broke,
                        !.block_classification = classification]

\* The locals after the branch "if content.text:".
TextStep(st, text, block) ==
    LET classification == _classify_text_block(block, text)
        broke == ShouldBreak(text, block, st.prev_block, st.current_paragraph)
    IN  IF classification \in Structural
        THEN [st EXCEPT !.merged = StructuralStep(st.merged, st.current_paragraph,
                                                  classification, text, block),
                        !.current_paragraph = <<>>,
                        !.prev_block = <<block>>,
                        !.should_break = broke,
                        !.block_classification = classification]
        ELSE [st EXCEPT !.merged = IF broke THEN Flush(st.merged, st.current_paragraph)
                                   ELSE st.merged,
                        !.current_paragraph =
                            Append(IF broke THEN <<>> ELSE st.current_paragraph,
                                   NormalizeSpaces(text)),
                        !.prev_block = <<block>>,
                        !.should_break = broke,
                        !.block_classification = classification]

\* The locals after the branch "elif content.latex:".
LatexStep(st, content, block) ==
    LET joined_text == Strip(Join(st.current_paragraph, <<" ">>))
        m_tag == IF st.current_paragraph = <<>> THEN <<>> ELSE eq_num_pattern(joined_text)
        pending_tag == SelectSeq(m_tag, LAMBDA ch : ch # " ")
        block_type == IF block.block_type = "table" THEN "table" ELSE "math"
        final_latex == IF pending_tag # <<>> /\ block_type = "math"
                       THEN content.latex \o TagMarkup(pending_tag)
                       ELSE content.latex
        flushed == IF m_tag # <<>> THEN st.merged
                   ELSE Flush(st.merged, st.current_paragraph)
    IN  [st EXCEPT !.merged = Append(flushed,
                                     Element(block_type, <<>>, final_latex, <<>>, <<>>)),
                   !.current_paragraph = <<>>,
                   !.prev_block = <<block>>,
                   !.should_break = ShouldBreak(content.text, block, st.prev_block,
                                                st.current_paragraph)]

\* The locals after the branch "elif content.image_path:".
ImageStep(st, content, block) ==
    [st EXCEPT !.merged = Append(Flush(st.merged, st.current_paragraph),
                                 Element("image", <<>>, <<>>, content.image_path, <<>>)),
               !.current_paragraph = <<>>,
               !.should_break = ShouldBreak(content.text, block, st.prev_block,
                                            st.current_paragraph)]

\* One iteration.  st holds the locals; the result also holds the text the
\* iteration leaves in content.text.
MergeStep(st, content, block) ==
    LET text == RepairedText(content.text)
        last == st.merged[Len(st.merged)]
    IN  IF IsNoise(content, block) THEN [locals |-> st, text |-> content.text]
        ELSE IF IsTrailingTag(text, st.current_paragraph, st.merged)
        THEN [locals |-> [st EXCEPT !.merged[Len(st.merged)].latex =
                                        last.latex \o TagMarkup(eq_num_pattern(text))],
              text |-> text]
        ELSE IF text # <<>> THEN [locals |-> TextStep(st, text, block), text |-> text]
        ELSE IF content.latex # <<>>
        THEN [locals |-> LatexStep(st, content, block), text |-> text]
        ELSE IF content.image_path # <<>>
        THEN [locals |-> ImageStep(st, content, block), text |-> text]
        ELSE [locals |-> [st EXCEPT !.should_break = ShouldBreak(text, block, st.prev_block,
                                                    st.current_paragraph)],
              text |-> text]

\* The locals of _merge_text_blocks as one record.
Locals ==
    [merged |-> merged, current_paragraph |-> current_paragraph,
     prev_block |-> prev_block, should_break |-> should_break,
     block_classification |-> block_classification]

\* merged = [], current_paragraph = [], prev_block = None
FreshLocals ==
    [merged |-> <<>>, current_paragraph |-> <<>>, prev_block |-> <<>>,
     should_break |-> FALSE, block_classification |-> "none"]

\* The loop from block n on, then the flush of the remaining paragraph: the
\* returned list and the contents as the call leaves them.
RECURSIVE MergeLoop(_, _, _, _)
MergeLoop(st, cs, bs, n) ==
    IF n > Len(cs) \/ n > Len(bs)
    THEN [merged |-> Flush(st.merged, st.current_paragraph), contents |-> cs]
    ELSE LET step == MergeStep(st, cs[n], bs[n])
         IN  MergeLoop(step.locals, [cs EXCEPT ![n].text = step.text], bs, n + 1)

_merge_text_blocks(cs, bs) == MergeLoop(FreshLocals, cs, bs, 1)

-----------------------------------------------------------------------------
(* Pages handed to the assembler                                           *)

\* The largest number of blocks on a page.
MaxBlocks == 2

Kind(text, latex, image_path, block_type, raw_label) ==
    [content |-> ExtractedContent(text, latex, image_path),
     block_type |-> block_type, raw_label |-> raw_label]

\* What a block may hold: lines of body text (open, ending a sentence, ending
\* on a hyphen, in capitals, a heading with its number last), a caption, a
\* labelled title, a formula.
BlockKinds ==
    { Kind(<<"E", "x", "p", "e", "r", "i", "m", "e", "n", "t", "a", "l">>, <<>>, <<>>,
           "text", "Text"),
      Kind(<<"R", "e", "s", "u", "l", "t", "s">>, <<>>, <<>>, "text", "Text"),
      Kind(<<"e", "n", "d", ".">>, <<>>, <<>>, "text", "Text"),
      Kind(<<"h", "y", "-">>, <<>>, <<>>, "text", "Text"),
      Kind(<<"A", "B", "C", "D">>, <<>>, <<>>, "text", "Text"),
      Kind(<<"T", "r", "a", "n", "g", " ", "1", " ", "2">>, <<>>, <<>>, "text", "Text"),
      Kind(<<"s", "e", "e">>, <<>>, <<>>, "caption", "Caption"),
      Kind(<<"T", "o", "p">>, <<>>, <<>>, "text", "Title"),
      Kind(<<>>, <<"x">>, <<>>, "equation", "Formula") }

\* Where a block sits relative to the one before it: the vertical gap to its
\* bottom edge and the horizontal shift, around the 4% and 10% thresholds.
Placements ==
    { [gap |-> 20, dx |-> 0], [gap |-> 40, dx |-> 0], [gap |-> 41, dx |-> 0],
      [gap |-> 100, dx |-> 0], [gap |-> 101, dx |-> 0],
      [gap |-> 20, dx |-> 100], [gap |-> 20, dx |-> -101] }

\* The blocks of kinds ks placed by ps (ps[1] is not used), from block n on.
RECURSIVE PlaceBlocks(_, _, _, _, _)
PlaceBlocks(ks, ps, n, x0, y0) ==
    IF n > Len(ks) THEN <<>>
    ELSE <<LayoutBlock(x0, y0, y0 + 20, ks[n].block_type, ks[n].raw_label, 0, FALSE, 1)>>
         \o (IF n = Len(ks) THEN <<>>
             ELSE PlaceBlocks(ks, ps, n + 1, x0 + ps[n + 1].dx, y0 + 20 + ps[n + 1].gap))

\* The table recognizer is not running.
TableIdle ==
    /\ model_loaded = FALSE /\ detections = <<>> /\ pc = "start" /\ Idle

-----------------------------------------------------------------------------
(* _merge_text_blocks, block by block                                      *)

\* A page: the first block in the body of the page, the others below it.

InitAssembler ==
    /\ TableIdle /\ EscaperIdle /\ PagesIdle /\ StagesIdle
    /\ \E n \in 1 .. MaxBlocks :
          \E ks \in [1 .. n -> BlockKinds], ps \in [2 .. n -> Placements] :
              /\ contents = [m \in 1 .. n |-> ks[m].content]
              /\ blocks = PlaceBlocks(ks, ps, 1, 200, 400)
    /\ a_pc = "ready"
    /\ pos = 1
    /\ merged = <<>> /\ current_paragraph = <<>> /\ prev_block = <<>>
    /\ should_break = FALSE /\ block_classification = "none"
    /\ runs = <<>>

\* A call of _merge_text_blocks(contents, blocks) on the page's objects: the
\* first one, or a second one after the first has returned.
CallMerge ==
    /\ a_pc \in {"ready", "returned"}
    /\ Len(runs) < 2
    /\ merged' = FreshLocals.merged
    /\ current_paragraph' = FreshLocals.current_paragraph
    /\ prev_block' = FreshLocals.prev_block
    /\ should_break' = FreshLocals.should_break
    /\ block_classification' = FreshLocals.block_classification
    /\ pos' = 1
    /\ runs' = Append(runs, [given |-> contents, result |-> <<>>])
    /\ a_pc' = "loop"
    /\ UNCHANGED <<table_vars, esc_vars, page_vars, stage_vars, contents, blocks>>

\* One iteration of "for content, block in zip(contents, blocks)".
AssembleBlock ==
    /\ a_pc = "loop"
    /\ pos <= Len(contents)
    /\ LET step == MergeStep(Locals, contents[pos], blocks[pos])
       IN  /\ merged' = step.locals.merged
           /\ current_paragraph' = step.locals.current_paragraph
           /\ prev_block' = step.locals.prev_block
           /\ should_break' = step.locals.should_break
           /\ block_classification' = step.locals.block_classification
           /\ contents' = [contents EXCEPT ![pos].text = step.text]
    /\ pos' = pos + 1
    /\ UNCHANGED <<table_vars, esc_vars, page_vars, stage_vars, blocks, a_pc, runs>>

\* Flush remaining paragraph; return merged.
ReturnMerged ==
    /\ a_pc = "loop"
    /\ pos > Len(contents)
    /\ merged' = Flush(merged, current_paragraph)
    /\ runs' = [runs EXCEPT ![Len(runs)].result = merged']
    /\ a_pc' = "returned"
    /\ UNCHANGED <<table_vars, esc_vars, page_vars, stage_vars, contents, blocks, pos,
                   current_paragraph, prev_block,
                   should_break, block_classification>>

NextAssembler ==
    \/ CallMerge
    \/ AssembleBlock
    \/ ReturnMerged

SpecAssembler == InitAssembler /\ [][NextAssembler]_vars

-----------------------------------------------------------------------------
(* C11: the merge of "Experimental" and "Results"                          *)

\* The first call has returned.
FirstRunDone == Len(runs) > 1 \/ (Len(runs) = 1 /\ a_pc = "returned")

\* Two plain-text blocks "Experimental" and "Results", same x0, 2% gap.
C11_Scenario ==
    /\ Len(runs) >= 1
    /\ Len(blocks) = 2
    /\ Len(runs[1].given) = 2
    /\ runs[1].given[1].text = <<"E", "x", "p", "e", "r", "i", "m", "e", "n", "t", "a", "l">>
    /\ runs[1].given[2].text = <<"R", "e", "s", "u", "l", "t", "s">>
    /\ \A n \in 1 .. 2 : blocks[n].block_type = "text" /\ blocks[n].raw_label = "Text"
    /\ blocks[2].x0 = blocks[1].x0
    /\ blocks[2].y0 - blocks[1].y1 = 20

\* C11: two consecutive plain-text blocks "Experimental" and "Results" with the
\* same x0 and a vertical gap of 2% of the page height are returned by the
\* assembler as exactly one paragraph element with the text
\* "Experimental Results".
C11_MergeScenario ==
    (C11_Scenario /\ FirstRunDone) =>
        runs[1].result =
            <<Element("paragraph",
                      <<"E", "x", "p", "e", "r", "i", "m", "e", "n", "t", "a", "l", " ",
                        "R", "e", "s", "u", "l", "t", "s">>, <<>>, <<>>, <<>>)>>

C11_Witness ==
    /\ C11_Scenario
    /\ FirstRunDone
    /\ Len(runs[1].result) = 1
    /\ runs[1].result[1].type = "paragraph"

-----------------------------------------------------------------------------
(* C14: two calls on the same input objects                                *)

\* C14: running the assembler twice on the same (content, block) objects gives
\* the same element sequence, and the first run leaves the contents as it
\* was given them.
C14_MergeDeterminism ==
    (Len(runs) = 2 /\ a_pc = "returned") =>
        /\ runs[2].given = runs[1].given
        /\ runs[2].result = runs[1].result

-----------------------------------------------------------------------------
(* C19: the paragraph break decision                                       *)

\* The block handled by the iteration that is taking place, with its text as
\* the decision logic reads it.
DecidingText ==
    /\ a_pc = "loop"
    /\ pos <= Len(contents)
    /\ ~IsNoise(contents[pos], blocks[pos])
    /\ RepairedText(contents[pos].text) # <<>>
    /\ ~IsTrailingTag(RepairedText(contents[pos].text), current_paragraph, merged)
    /\ prev_block # <<>>
    /\ current_paragraph # <<>>

\* The six rules in priority order, read off the geometry and the two texts.
SixRules(text, block, prev, prev_line) ==
    LET gap == block.y0 - prev.y1
        shift == block.x0 - prev.x0
        letters == {n \in DOMAIN text : text[n] \in Lower \cup Upper}
        capitals == {n \in DOMAIN text : text[n] \in Upper}
        last == prev_line[Len(prev_line)]
        quoted == Len(prev_line) >= 2 /\ last = "\""
                  /\ prev_line[Len(prev_line) - 1] \in {".", "!", "?"}
    IN  CASE shift > 100 \/ shift < -100 -> "break"
          [] gap > 100 -> "break"
          [] letters # {} /\ 10 * Cardinality(capitals) > 8 * Cardinality(letters)
             /\ Len(text) \in 4 .. 149 -> "break"
          [] last = "-" -> "merge"
          [] ~(last \in {".", "!", "?", ":"} \/ quoted) ->
                 IF gap > 40 THEN "break" ELSE "merge"
          [] OTHER -> IF gap > 40 \/ block.block_type # prev.block_type
                      THEN "break" ELSE "merge"

\* C19: with a previous block and a non-empty buffer, the decision taken for a
\* text block is the first applicable of the six rules: column shift, huge
\* gap, uppercase header, hyphen, open sentence, ended sentence.
C19_BreakDecisionOrder ==
    [][DecidingText =>
          should_break' =
              (SixRules(Strip(RepairedText(contents[pos].text)), blocks[pos], prev_block[1],
                        current_paragraph[Len(current_paragraph)]) = "break")]_vars

\* A line ending on a hyphen has been followed by a block 4%..10% below it and
\* the two were merged.
C19_Witness ==
    /\ a_pc = "loop"
    /\ pos = 3
    /\ blocks[2].y0 - blocks[1].y1 = 41
    /\ blocks[2].x0 = blocks[1].x0
    /\ current_paragraph = <<<<"h", "y", "-">>, <<"R", "e", "s", "u", "l", "t", "s">>>>
    /\ should_break = FALSE

-----------------------------------------------------------------------------
(* C20: a structural block flushes the buffer first                        *)

\* The iteration taking place handles a text block classified title, section,
\* subsection or list-item.
AtStructuralBlock ==
    /\ a_pc = "loop"
    /\ pos <= Len(contents)
    /\ ~IsNoise(contents[pos], blocks[pos])
    /\ RepairedText(contents[pos].text) # <<>>
    /\ ~IsTrailingTag(RepairedText(contents[pos].text), current_paragraph, merged)
    /\ _classify_text_block(blocks[pos], RepairedText(contents[pos].text)) \in Structural

\* C20: when a block is classified title, section, subsection or list-item,
\* the open buffer (if non-empty) is emitted as one paragraph element, the
\* structural element comes immediately after it, nothing else is added, and
\* the buffer is empty afterwards.
C20_StructuralFlushOrder ==
    [][AtStructuralBlock =>
          LET k == Len(merged)
              flushed == IF current_paragraph = <<>> THEN 0 ELSE 1
              class == _classify_text_block(blocks[pos], RepairedText(contents[pos].text))
          IN  /\ current_paragraph' = <<>>
              /\ Len(merged') = k + flushed + 1
              /\ SubSeq(merged', 1, k) = merged
              /\ flushed = 1 =>
                     /\ merged'[k + 1].type = "paragraph"
                     /\ merged'[k + 1].text = Join(current_paragraph, <<" ">>)
              /\ merged'[k + flushed + 1].type = class
              /\ merged'[k + flushed + 1].text
                     = NormalizeSpaces(RepairedText(contents[pos].text))]_vars

\* A title block has come after a buffered line: paragraph, then title.
C20_Witness ==
    /\ a_pc = "loop"
    /\ pos = 3
    /\ current_paragraph = <<>>
    /\ Len(merged) = 2
    /\ merged[1].type = "paragraph"
    /\ merged[1].text = <<"E", "x", "p", "e", "r", "i", "m", "e", "n", "t", "a", "l">>
    /\ merged[2].type = "title"
    /\ merged[2].text = <<"T", "o", "p">>

-----------------------------------------------------------------------------
(* _classify_text_block on one block                                       *)

\* The largest font size (points) a block is given.
MaxFontSize == 21

\* n characters: a capital, then small letters.
LongText(n) == [m \in 1 .. n |-> IF m = 1 THEN "A" ELSE "b"]

\* Texts of a block: body text, a continuation line, inline math, numbered
\* and lettered headings, dates, list items, a long line, a line of 80
\* characters.
ClassifierTexts ==
    { <<"R", "e", "s", "u", "l", "t", "s">>,
      <<" ", "s", "e", "e">>,
      <<"2", " ", "$", "X", "$">>,
      <<"2", " ", "B", "a">>,
      <<"2", ".", "1", " ", "B", "a", "c", "k", "g", "r", "o", "u", "n", "d">>,
      <<"2", ".", "1", ".", "1", " ", "B", "a">>,
      <<"I", "V", ".", " ", "R", "e">>,
      <<"A", ".", " ", "R", "e">>,
      <<"1", ".", " ", "I", "t">>,
      <<"-", " ", "i", "t">>,
      <<"2", "0", "2", "6", " ", "F", "e", "b">>,
      <<"1", "9", "9", "9", ".", "1", " ", "F", "o">>,
      LongText(24),
      LongText(80) }

InitClassifier ==
    /\ TableIdle /\ EscaperIdle /\ PagesIdle /\ StagesIdle
    /\ \E text \in ClassifierTexts,
          raw_label \in {"", "Text", "Title", "Section-header", "List-item"},
          font_size \in {0} \cup (12 .. MaxFontSize),
          is_bold \in BOOLEAN,
          y0 \in {40, 90, 200, 400},
          page_num \in {0, 1} :
              /\ contents = <<ExtractedContent(text, <<>>, <<>>)>>
              /\ blocks = <<LayoutBlock(200, y0, y0 + 20, "text", raw_label, font_size,
                                        is_bold, page_num)>>
    /\ a_pc = "ready"
    /\ pos = 1
    /\ merged = <<>> /\ current_paragraph = <<>> /\ prev_block = <<>>
    /\ should_break = FALSE /\ block_classification = "none"
    /\ runs = <<>>

\* block_classification = self._classify_text_block(block, content.text)
ClassifyBlock ==
    /\ a_pc = "ready"
    /\ block_classification' = _classify_text_block(blocks[1], contents[1].text)
    /\ a_pc' = "returned"
    /\ UNCHANGED <<table_vars, esc_vars, page_vars, stage_vars, contents, blocks, pos, merged,
                   current_paragraph, prev_block,
                   should_break, runs>>

NextClassifier == ClassifyBlock

SpecClassifier == InitClassifier /\ [][NextClassifier]_vars

\* The block and the (stripped) text a finished classification was about.
Classified == a_pc = "returned" /\ Len(blocks) = 1 /\ runs = <<>>

-----------------------------------------------------------------------------
(* C16: authoritative raw labels                                           *)

\* The first character of the text, leading whitespace aside, is a small letter.
StartsLowercase(text) ==
    \E n \in DOMAIN text :
        /\ text[n] \in Lower
        /\ \A m \in 1 .. n - 1 : text[m] \in Whitespace

\* C16: a block labelled "Title", "Section-header" or "List-item" is classified
\* title, section or list-item whatever its font, position and text, except
\* that a "Section-header" whose text starts with a lowercase letter is
\* classified text.
C16_AuthoritativeLabels ==
    Classified =>
        LET block == blocks[1]
            text == contents[1].text
        IN  /\ block.raw_label = "Title" => block_classification = "title"
            /\ block.raw_label = "List-item" => block_classification = "list-item"
            /\ block.raw_label = "Section-header" =>
                   block_classification = IF StartsLowercase(text) THEN "text" ELSE "section"

\* A "Section-header" block high on the page in large bold type whose text
\* starts with a small letter has been classified text.
C16_Witness ==
    /\ Classified
    /\ blocks[1].raw_label = "Section-header"
    /\ blocks[1].is_bold /\ blocks[1].font_size = 18 /\ blocks[1].y0 = 40
    /\ contents[1].text = <<" ", "s", "e", "e">>
    /\ block_classification = "text"

-----------------------------------------------------------------------------
(* C17: section or subsection                                              *)

\* The leading enumerant of a heading: the text before the first whitespace.
Enumerant(text) == TakeUntil(Strip(text), Whitespace)

\* The heading has no authoritative label and no math, is shorter than 80
\* characters, and starts with an enumerant and a capitalized word.
IsMarkedHeading(block, text) ==
    /\ block.raw_label \notin {"Title", "Section-header", "List-item"}
    /\ "$" \notin Range(text)
    /\ section_pattern(Strip(text))
    /\ Len(Strip(text)) < 80

\* The text starts with a year from 1900 to 2099.
IsYear(text) == YearStart(Strip(text))

\* C17: a heading matched by the structural-marker rule (and not a year) is a
\* subsection when its leading numeral has more than one dot-separated
\* component, as in "2.1 Background", and a section otherwise.
C17_SectionLevel ==
    (Classified /\ IsMarkedHeading(blocks[1], contents[1].text)
                /\ ~IsYear(contents[1].text)) =>
        LET numeral == Enumerant(contents[1].text)
            components == IF numeral[1] \in Digits
                          THEN Cardinality({n \in DOMAIN numeral : numeral[n] = "."}) + 1
                          ELSE 1
        IN  block_classification = IF components > 1 THEN "subsection" ELSE "section"

-----------------------------------------------------------------------------
(* C18: the font thresholds                                                *)

\* A finished classification that the font rules decide or pass on: no
\* authoritative label, no math, no lowercase start, no structural marker,
\* fewer than 80 characters, y0 < 0.3 and a font size.
FontCase ==
    /\ Classified
    /\ blocks[1].raw_label \notin {"Title", "Section-header", "List-item"}
    /\ "$" \notin Range(contents[1].text)
    /\ ~StartsLowercase(contents[1].text)
    /\ ~section_pattern(Strip(contents[1].text))
    /\ Len(Strip(contents[1].text)) < 80
    /\ blocks[1].y0 < 300
    /\ blocks[1].font_size # 0

\* C18 as stated: the thresholds are inclusive: bold >= 16 title, bold >= 13
\* section, non-bold >= 20 title, non-bold >= 17 section.
C18_InclusiveThresholds ==
    FontCase =>
        LET size == blocks[1].font_size
            bold == blocks[1].is_bold
        IN  /\ (bold /\ size >= 16) => block_classification = "title"
            /\ (bold /\ size >= 13 /\ size < 16) => block_classification = "section"
            /\ (~bold /\ size >= 20) => block_classification = "title"
            /\ (~bold /\ size >= 17 /\ size < 20) => block_classification = "section"

\* C18 amended: the thresholds are strict: bold > 16 title, bold > 13 (up to
\* and including 16) section, non-bold > 20 title, non-bold > 17 (up to and
\* including 20) section; bold at 13 or less and non-bold at 17 or less are
\* never a section.
C18_StrictThresholds ==
    FontCase =>
        LET size == blocks[1].font_size
            bold == blocks[1].is_bold
        IN  /\ (bold /\ size > 16) => block_classification = "title"
            /\ (bold /\ size > 13 /\ size <= 16) => block_classification = "section"
            /\ (~bold /\ size > 20) => block_classification = "title"
            /\ (~bold /\ size > 17 /\ size <= 20) => block_classification = "section"
            /\ (bold /\ size <= 13) => block_classification # "section"
            /\ (~bold /\ size <= 17) => block_classification # "section"

\* A bold block of exactly 16 points has been classified section.
C18_Witness ==
    /\ FontCase
    /\ blocks[1].is_bold
    /\ blocks[1].font_size = 16
    /\ block_classification = "section"

-----------------------------------------------------------------------------
(* _escape_latex and the functions it calls                                *)

\* text.replace(old, new): every occurrence, left to right, not overlapping.
RECURSIVE Replace(_, _, _)
Replace(text, old, new) ==
    LET found == {n \in 1 .. Len(text) - Len(old) + 1 :
                     SubSeq(text, n, n + Len(old) - 1) = old}
        first == SetMin(found)
    IN  IF found = {} THEN text
        ELSE SubSeq(text, 1, first - 1) \o new
             \o Replace(SubSeq(text, first + Len(old), Len(text)), old, new)

\* The replacements dict of _escape_simple, in its order.
replacements ==
    << <<<<"\\">>, <<"\\", "t", "e", "x", "t", "b", "a", "c", "k", "s", "l", "a", "s", "h", "{", "}">>>>,
       <<<<"&">>, <<"\\", "&">>>>,
       <<<<"%">>, <<"\\", "%">>>>,
       <<<<"$">>, <<"\\", "$">>>>,
       <<<<"#">>, <<"\\", "#">>>>,
       <<<<"_">>, <<"\\", "_">>>>,
       <<<<"{">>, <<"\\", "{">>>>,
       <<<<"}">>, <<"\\", "}">>>>,
       <<<<"~">>, <<"\\", "t", "e", "x", "t", "a", "s", "c", "i", "i", "t", "i", "l", "d", "e", "{", "}">>>>,
       <<<<"^">>, <<"\\", "t", "e", "x", "t", "a", "s", "c", "i", "i", "c", "i", "r", "c", "u", "m", "{", "}">>>>,
       <<<<"<">>, <<"\\", "t", "e", "x", "t", "l", "e", "s", "s", "{", "}">>>>,
       <<<<">">>, <<"\\", "t", "e", "x", "t", "g", "r", "e", "a", "t", "e", "r", "{", "}">>>> >>

\* for char, replacement in replacements.items(): text = text.replace(...)
RECURSIVE EscapeFrom(_, _)
EscapeFrom(text, n) ==
    IF n > Len(replacements) THEN text
    ELSE EscapeFrom(Replace(text, replacements[n][1], replacements[n][2]), n + 1)

_escape_simple(text) == EscapeFrom(text, 1)

\* _process_rich_text on a text without "/": there is no </math>, </b> or </i>
\* to close a tag, the stray-tag pattern </?math.*?> aside.
_process_rich_text(text) == _escape_simple(text)

\* The placeholder a bullet becomes, and the markup that replaces it.
ItemPlaceholder == <<"[", "[", "I", "T", "E", "M", "]", "]">>
ItemMarkup == <<"\n", "\\", "i", "t", "e", "m", " ">>

\* _fix_vietnamese_encoding on a text that holds none of the dictionary's
\* words: \' becomes ', a bullet becomes the placeholder.
_fix_vietnamese_encoding(text) ==
    Replace(Replace(text, <<"\\", "'">>, <<"'">>), <<Bullet>>, ItemPlaceholder)

\* The first match of \$.+?\$ or \\\(.+?\\\) in text from position n on, as
\* <<start, end>>; <<0, 0>> without a match.
FindMath(text, n) ==
    LET dollars(k) == {m \in k + 2 .. Len(text) : text[m] = "$"}
        parens(k) == {m \in k + 3 .. Len(text) - 1 : text[m] = "\\" /\ text[m + 1] = ")"}
        opens_dollar(k) == text[k] = "$" /\ dollars(k) # {}
        opens_paren(k) == /\ k < Len(text) /\ text[k] = "\\" /\ text[k + 1] = "("
                          /\ parens(k) # {}
        starts == {k \in n .. Len(text) : opens_dollar(k) \/ opens_paren(k)}
        first == SetMin(starts)
    IN  IF starts = {} THEN <<0, 0>>
        ELSE IF opens_dollar(first) THEN <<first, SetMin(dollars(first))>>
        ELSE <<first, SetMin(parens(first)) + 1>>

\* re.split(math_pattern, text) without the empty parts.
RECURSIVE SplitMath(_)
SplitMath(text) ==
    LET m == FindMath(text, 1)
        before == SubSeq(text, 1, m[1] - 1)
    IN  IF text = <<>> THEN <<>>
        ELSE IF m[1] = 0 THEN <<text>>
        ELSE (IF before = <<>> THEN <<>> ELSE <<before>>)
             \o <<SubSeq(text, m[1], m[2])>>
             \o SplitMath(SubSeq(text, m[2] + 1, Len(text)))

\* part.strip('$')
StripDollars(part) ==
    LET keep == {n \in DOMAIN part : part[n] # "$"}
    IN  IF keep = {} THEN <<>> ELSE SubSeq(part, SetMin(keep), SetMax(keep))

\* One part of the split: math keeps its content between $...$, text is
\* escaped.  A part counts as math by how it starts.
EscapePart(part) ==
    IF part[1] = "$" THEN <<"$">> \o StripDollars(part) \o <<"$">>
    ELSE IF StartsWith(part, <<"\\", "(">>)
    THEN <<"$">> \o SubSeq(part, 3, Len(part) - 2) \o <<"$">>
    ELSE _process_rich_text(part)

RECURSIVE EscapeParts(_)
EscapeParts(parts) ==
    IF parts = <<>> THEN <<>> ELSE EscapePart(Head(parts)) \o EscapeParts(Tail(parts))

_escape_latex(text) ==
    Replace(EscapeParts(SplitMath(_fix_vietnamese_encoding(text))),
            ItemPlaceholder, ItemMarkup)

-----------------------------------------------------------------------------
(* _escape_latex called on a text, then on its own output                  *)

\* The longest text handed to the escaper.
MaxTextLen == 3

\* The characters of a text: a letter, reserved characters of each kind
\* (backslash, braces, math delimiter, one-character and long replacements)
\* and a bullet.
EscAlphabet == {"a", "\\", "&", "$", "_", "{", "}", "<", "~", Bullet}

InitEscaper ==
    /\ TableIdle /\ AssemblerIdle /\ PagesIdle /\ StagesIdle
    /\ \E n \in 0 .. MaxTextLen : plain \in [1 .. n -> EscAlphabet]
    /\ escaped = <<>>

\* escaped = self._escape_latex(text)
EscapeText ==
    /\ escaped = <<>>
    /\ escaped' = <<_escape_latex(plain)>>
    /\ UNCHANGED <<table_vars, asm_vars, page_vars, stage_vars, plain>>

\* self._escape_latex(escaped): the escaper is given its own output.
EscapeAgain ==
    /\ Len(escaped) = 1
    /\ escaped' = Append(escaped, _escape_latex(escaped[1]))
    /\ UNCHANGED <<table_vars, asm_vars, page_vars, stage_vars, plain>>

NextEscaper == EscapeText \/ EscapeAgain

SpecEscaper == InitEscaper /\ [][NextEscaper]_vars

\* C13: escaping already-escaped plain text is a no-op:
\* escape(escape(t)) = escape(t).
C13_IdempotentEscaping ==
    Len(escaped) = 2 => escaped[2] = escaped[1]

-----------------------------------------------------------------------------
(* _refine_semantics                                                       *)

\* str.lower() of one character.
LowerOf(ch) ==
    LET small == <<"a", "b", "c", "d", "e", "f", "g", "h", "i", "j", "k", "l", "m", "n", "o", "p", "q", "r", "s", "t", "u", "v", "w", "x", "y", "z">>
        capital == <<"A", "B", "C", "D", "E", "F", "G", "H", "I", "J", "K", "L", "M", "N", "O", "P", "Q", "R", "S", "T", "U", "V", "W", "X", "Y", "Z">>
    IN  IF ch \in Upper THEN small[CHOOSE n \in 1 .. 26 : capital[n] = ch] ELSE ch

\* re.match(word, text, re.IGNORECASE) for a word in small letters
StartsWithWord(text, word) ==
    /\ Len(text) >= Len(word)
    /\ \A n \in DOMAIN word : LowerOf(text[n]) = word[n]

\* text.split()
RECURSIVE Words(_)
Words(text) ==
    LET t == LStrip(text)
    IN  IF t = <<>> THEN <<>>
        ELSE <<TakeUntil(t, Whitespace)>> \o Words(DropUntil(t, Whitespace))

\* The length of the match of \\[a-zA-Z]+\{ at the start of text, 0 for none.
CommandLen(text) ==
    LET letters == PrefixLen(Tail(text), {ch \in Range(text) : ch \notin Lower \cup Upper})
    IN  IF /\ Len(text) >= 3 /\ text[1] = "\\" /\ letters >= 1
           /\ Len(text) >= letters + 2 /\ text[letters + 2] = "{"
        THEN letters + 2 ELSE 0

\* re.sub(r'\\[a-zA-Z]+\{', '', text).replace('}', '')
RECURSIVE StripCommands(_)
StripCommands(text) ==
    IF text = <<>> THEN <<>>
    ELSE IF CommandLen(text) > 0
    THEN StripCommands(SubSeq(text, CommandLen(text) + 1, Len(text)))
    ELSE IF Head(text) = "}" THEN StripCommands(Tail(text))
    ELSE <<Head(text)>> \o StripCommands(Tail(text))

\* abstract_pattern.match(text); of the two words only "Abstract" is in the
\* letters the texts are written in.
abstract_pattern(text) == StartsWithWord(text, <<"a", "b", "s", "t", "r", "a", "c", "t">>)

\* A letter, a digit or an underscore (\w).
WordChars == Lower \cup Upper \cup Digits \cup {"_"}

\* theorem_pattern.match(text): ^(Theorem|Lemma)\b, case ignored
theorem_pattern(text) ==
    \E word \in {<<"t", "h", "e", "o", "r", "e", "m">>, <<"l", "e", "m", "m", "a">>} :
        /\ StartsWithWord(text, word)
        /\ (Len(text) = Len(word) \/ text[Len(word) + 1] \notin WordChars)

\* The number of characters (\\textit\{|\\textbf\{|[\*\\\{])* takes.
RECURSIVE FormatPrefixLen(_)
FormatPrefixLen(text) ==
    IF text = <<>> THEN 0
    ELSE IF StartsWith(text, <<"\\", "t", "e", "x", "t", "i", "t", "{">>) \/ StartsWith(text, <<"\\", "t", "e", "x", "t", "b", "f", "{">>)
    THEN 8 + FormatPrefixLen(SubSeq(text, 9, Len(text)))
    ELSE IF Head(text) \in {"*", "\\", "{"} THEN 1 + FormatPrefixLen(Tail(text))
    ELSE 0

\* What follows the marker "Proof" at the start of text, formatting
\* characters skipped: <<rest>>, or <<>> when the text does not start with
\* the marker.
AfterProofMarker(text) ==
    LET body == SubSeq(text, FormatPrefixLen(text) + 1, Len(text))
    IN  IF StartsWithWord(body, <<"p", "r", "o", "o", "f">>) THEN <<SubSeq(body, 6, Len(body))>> ELSE <<>>

\* proof_start_pattern.match(text): marker, [\*\}\.]*, then \s*[:.]
proof_start_pattern(text) ==
    /\ AfterProofMarker(text) # <<>>
    /\ LET rest == AfterProofMarker(text)[1]
           run == PrefixLen(rest, {ch \in Range(rest) : ch \notin {"*", "}", "."}})
           after == LStrip(SubSeq(rest, run + 1, Len(rest)))
       IN  \/ \E n \in 1 .. run : rest[n] = "."
           \/ (after # <<>> /\ after[1] \in {":", "."})

\* proof_pattern.match(text): marker, [\*\}\.]*, (\s*[:.])?, end of text
proof_pattern(text) ==
    /\ AfterProofMarker(text) # <<>>
    /\ LET rest == AfterProofMarker(text)[1]
           run == PrefixLen(rest, {ch \in Range(rest) : ch \notin {"*", "}", "."}})
           after == SubSeq(rest, run + 1, Len(rest))
       IN  after = <<>> \/ LStrip(after) \in {<<":">>, <<".">>}

\* toc_line_pattern.search(text): (\.\s*){4,}
toc_line_pattern(text) ==
    \E n \in DOMAIN text :
        LET d1 == SubSeq(text, n, Len(text))
            d2 == LStrip(Tail(d1))
            d3 == IF d2 = <<>> THEN <<>> ELSE LStrip(Tail(d2))
            d4 == IF d3 = <<>> THEN <<>> ELSE LStrip(Tail(d3))
        IN  /\ d1[1] = "." /\ d2 # <<>> /\ d2[1] = "."
            /\ d3 # <<>> /\ d3[1] = "." /\ d4 # <<>> /\ d4[1] = "."

\* explicit_section_pattern.match(text): ^(SECTION|APPENDIX)\s+([A-Z0-9\.]+),
\* case ignored
explicit_section_pattern(text) ==
    \E word \in {<<"s", "e", "c", "t", "i", "o", "n">>, <<"a", "p", "p", "e", "n", "d", "i", "x">>} :
        /\ StartsWithWord(text, word)
        /\ LET rest == SubSeq(text, Len(word) + 1, Len(text))
           IN  /\ rest # <<>> /\ rest[1] \in Whitespace
               /\ LStrip(rest) # <<>>
               /\ LStrip(rest)[1] \in Lower \cup Upper \cup Digits \cup {"."}

\* text.split(sep) for a non-empty separator
RECURSIVE SplitOn(_, _)
SplitOn(text, sep) ==
    LET at == {n \in 1 .. Len(text) - Len(sep) + 1 : SubSeq(text, n, n + Len(sep) - 1) = sep}
    IN  IF at = {} THEN <<text>>
        ELSE <<SubSeq(text, 1, SetMin(at) - 1)>>
             \o SplitOn(SubSeq(text, SetMin(at) + Len(sep), Len(text)), sep)

\* re.sub(r'\\begin\{tabular\}.*?(\n|$)', '', raw)
RECURSIVE StripTabularBegin(_)
StripTabularBegin(raw) ==
    LET parts == SplitOn(raw, <<"\\", "b", "e", "g", "i", "n", "{", "t", "a", "b", "u", "l", "a", "r", "}">>)
        rest == Join(Tail(parts), <<"\\", "b", "e", "g", "i", "n", "{", "t", "a", "b", "u", "l", "a", "r", "}">>)
        line == PrefixLen(rest, {"\n"})
    IN  IF Len(parts) = 1 THEN raw
        ELSE parts[1] \o StripTabularBegin(SubSeq(rest, line + 2, Len(rest)))

\* One row of a table of contents: "name \dotfill page".
TocLine(line) ==
    LET parts == SplitOn(line, <<"&">>)
    IN  IF Len(parts) > 1
        THEN Strip(parts[1]) \o <<" ", "\\", "d", "o", "t", "f", "i", "l", "l", " ">> \o Strip(parts[Len(parts)])
        ELSE Strip(line)

RECURSIVE TocLines(_)
TocLines(lines) ==
    IF lines = <<>> THEN <<>>
    ELSE IF Strip(Head(lines)) = <<>> THEN TocLines(Tail(lines))
    ELSE <<TocLine(Head(lines))>> \o TocLines(Tail(lines))

\* 4. The latex of a table that is a table of contents
TocLatex(latex) ==
    LET raw == Replace(Replace(Replace(Replace(StripTabularBegin(latex),
                   <<"\\", "e", "n", "d", "{", "t", "a", "b", "u", "l", "a", "r", "}">>, <<>>), <<"\\", "b", "e", "g", "i", "n", "{", "c", "e", "n", "t", "e", "r", "}">>, <<>>),
                   <<"\\", "e", "n", "d", "{", "c", "e", "n", "t", "e", "r", "}">>, <<>>), <<"\\", "h", "l", "i", "n", "e">>, <<>>)
    IN  Join(TocLines(SplitOn(raw, <<"\\", "\\">>)), <<"\n", "\n">>)

\* 1c. paragraph_header_pattern ^([^\.]+?): gives the header before the first
\* colon; <<>> when the pattern or the length heuristic fails.
ParagraphHeader(text) ==
    LET colon == PrefixLen(text, {":"})
        header == SubSeq(text, 1, colon)
    IN  IF /\ colon >= 1 /\ colon < Len(text)
           /\ "." \notin Range(header)
           /\ Len(Words(header)) < 6
           /\ Len(text) > Len(header) + 2
        THEN header ELSE <<>>

\* f"\\paragraph{{{escaped_header}:}} {escaped_rest}"
ParagraphHeaderLatex(text) ==
    LET header == ParagraphHeader(text)
    IN  <<"\\", "p", "a", "r", "a", "g", "r", "a", "p", "h", "{">> \o _escape_latex(header) \o <<":", "}", " ">>
        \o _escape_latex(Strip(SubSeq(text, Len(header) + 2, Len(text))))

\* w.isupper() or not w.isalpha()
CountsAsUpper(w) ==
    \/ (\E n \in DOMAIN w : w[n] \in Upper) /\ (\A n \in DOMAIN w : w[n] \notin Lower)
    \/ \E n \in DOMAIN w : w[n] \notin Lower \cup Upper

\* 5. Uppercase section inference on a paragraph
IsUppercaseSection(text) ==
    /\ Len(text) < 100
    /\ Range(text) \cap {"=", "<", ">"} = {}
    /\ Len(Words(text)) >= 3
    /\ Cardinality({n \in DOMAIN Words(text) : CountsAsUpper(Words(text)[n])})
           >= Len(Words(text)) - 1

\* The characters of [A-Z\s0-9\.] (capitals without diacritics).
HeaderChars == Upper \cup Whitespace \cup Digits \cup {"."}

\* The match of ^([A-Z\s\(\)0-9\.]{5,50}?)\s+([A-Z][a-z].*): <<group 1,
\* group 2>>, <<>> without a match.
UpperThenMixed(text) ==
    LET ends == {k \in 5 .. 50 :
                    /\ k < Len(text)
                    /\ \A n \in 1 .. k : text[n] \in HeaderChars \cup {"(", ")"}
                    /\ text[k + 1] \in Whitespace
                    /\ LET rest == LStrip(SubSeq(text, k + 1, Len(text)))
                       IN  Len(rest) >= 2 /\ rest[1] \in Upper /\ rest[2] \in Lower}
    IN  IF ends = {} THEN <<>>
        ELSE <<SubSeq(text, 1, SetMin(ends)),
               LStrip(SubSeq(text, SetMin(ends) + 1, Len(text)))>>

\* Heuristic 1: the header is the first line; <<header, body>> or <<>>.
SplitAtNewline(text) ==
    LET first == PrefixLen(text, {"\n"})
        possible_header == Strip(SubSeq(text, 1, first))
    IN  IF /\ "\n" \in Range(text)
           /\ Len(Words(possible_header)) < 20
           /\ possible_header # <<>>
           /\ Range(possible_header) \subseteq HeaderChars
        THEN <<possible_header, Strip(SubSeq(text, first + 2, Len(text)))>>
        ELSE <<>>

\* Heuristic 2: ^(.{5,50}?)(:|.)\s+(.*) gives the shortest start followed by
\* one more character and whitespace; <<header, body>> or <<>>.
SplitAtPunctuation(text) ==
    LET ends == {k \in 5 .. 50 : k + 2 <= Len(text) /\ text[k + 2] \in Whitespace}
        candidate_header == SubSeq(text, 1, SetMin(ends) + 1)
    IN  IF /\ ends # {}
           /\ \/ Range(candidate_header) \subseteq HeaderChars \cup {":"}
              \/ explicit_section_pattern(candidate_header)
        THEN <<candidate_header, LStrip(SubSeq(text, SetMin(ends) + 2, Len(text)))>>
        ELSE <<>>

\* Heuristic 3: capitals, then a capitalized word; <<header, body>> or <<>>.
SplitAtCaseChange(text) ==
    LET m_upper == UpperThenMixed(text)
    IN  IF /\ m_upper # <<>>
           /\ Len(Words(m_upper[1])) < 15
           /\ Len(Strip(m_upper[1])) > 5
        THEN <<Strip(m_upper[1]), Strip(m_upper[2])>>
        ELSE <<>>

\* Phase 3: <<header_txt, body_txt>> of an item that is split, else <<>>.
HeaderAndBody(type, text) ==
    LET promoted == /\ type = "paragraph" /\ Len(text) > 100
                    /\ UpperThenMixed(StripCommands(text)) # <<>>
                    /\ Len(Words(UpperThenMixed(StripCommands(text))[1])) > 2
        split == IF SplitAtNewline(text) # <<>> THEN SplitAtNewline(text)
                 ELSE IF SplitAtPunctuation(text) # <<>> THEN SplitAtPunctuation(text)
                 ELSE SplitAtCaseChange(text)
    IN  IF /\ (type = "section" \/ promoted)
           /\ Len(Words(text)) > 20
           /\ split # <<>> /\ split[1] # <<>> /\ split[2] # <<>>
        THEN split ELSE <<>>

\* 1. Abstract detection, on the first page only.
AbstractDetection(item, text, page_num) ==
    IF page_num = 1 /\ abstract_pattern(text) THEN [item EXCEPT !.type = "abstract"] ELSE item

\* 1b. Explicit section keywords.
ExplicitSection(item, text) ==
    IF explicit_section_pattern(text) THEN [item EXCEPT !.type = "section"] ELSE item

\* 1c. Paragraph headers: a short start closed by a colon is set in bold and
\* the item becomes raw_latex with its text set to None.
ParagraphHeaders(item, text) ==
    IF item.type = "paragraph" /\ ParagraphHeader(text) # <<>>
    THEN [item EXCEPT !.type = "raw_latex", !.latex = ParagraphHeaderLatex(text),
                      !.text = <<>>]
    ELSE item

\* 2. Theorem/lemma detection on the text without its leading commands.
TheoremDetection(item, clean_text_for_check) ==
    IF theorem_pattern(clean_text_for_check) /\ Len(clean_text_for_check) > 10
    THEN [item EXCEPT !.type = "theorem"] ELSE item

\* 3. Proof detection.
ProofDetection(item, text) ==
    IF proof_start_pattern(text) \/ proof_pattern(text)
    THEN [item EXCEPT !.type = "proof"] ELSE item

\* 4. TOC fix: a table whose content holds a dotted leader.
TocFix(item) ==
    IF ~(item.type = "table"
         /\ toc_line_pattern(IF item.latex # <<>> THEN item.latex ELSE item.text))
    THEN item
    ELSE IF item.latex # <<>>
    THEN [item EXCEPT !.type = "raw_latex", !.latex = TocLatex(item.latex)]
    ELSE IF item.text # <<>> THEN [item EXCEPT !.type = "paragraph"]
    ELSE [item EXCEPT !.type = "raw_latex"]

\* 5. Uppercase section inference.
UppercaseSection(item, text) ==
    IF item.type = "paragraph" /\ IsUppercaseSection(text)
    THEN [item EXCEPT !.type = "section"] ELSE item

\* The body of the loop up to the splitting of merged headers: the rules are
\* applied one after the other, each to the item the rule before it left;
\* text is read once, before the first rule.
RefinedOn(item, text, page_num) ==
    UppercaseSection(
        TocFix(
            ProofDetection(
                TheoremDetection(
                    ParagraphHeaders(
                        ExplicitSection(AbstractDetection(item, text, page_num), text),
                        text),
                    StripCommands(text)),
                text)),
        text)

RefinedItem(item, page_num) == RefinedOn(item, Strip(item.text), page_num)

\* What one iteration appends to refined_items, given the refined item and
\* the split of its text: header and body, or the item itself.
SegmentOf(refined, split) ==
    IF split # <<>>
    THEN <<[refined EXCEPT !.type = "section", !.text = split[1]],
           Element("paragraph", split[2], <<>>, <<>>, <<>>)>>
    ELSE <<refined>>

\* Variant of RefinedSegment: the body of a split item is appended before
\* its header.
RefinedSegment_BodyFirst(item, page_num) ==
    LET seg == SegmentOf(RefinedItem(item, page_num),
                         HeaderAndBody(RefinedItem(item, page_num).type, Strip(item.text)))
    IN  IF Strip(item.text) = <<>> /\ item.latex = <<>> /\ item.image_path = <<>> THEN <<>>
        ELSE IF Len(seg) = 2 THEN <<seg[2], seg[1]>>
        ELSE seg

\* One iteration of "for i, item in enumerate(items)": nothing for an item
\* without text, markup and image ("Skip empty"), else the refined item or
\* its header and body.
RefinedSegment(item, page_num) ==
    IF Strip(item.text) = <<>> /\ item.latex = <<>> /\ item.image_path = <<>> THEN <<>>
    ELSE SegmentOf(RefinedItem(item, page_num),
                   HeaderAndBody(RefinedItem(item, page_num).type, Strip(item.text)))

\* for i, item in enumerate(items): ... refined_items.append(item)
RECURSIVE _refine_semantics(_, _)
_refine_semantics(items, page_num) ==
    IF items = <<>> THEN <<>>
    ELSE RefinedSegment(Head(items), page_num) \o _refine_semantics(Tail(items), page_num)

-----------------------------------------------------------------------------
(* _generate_page: the markup of one item                                  *)

\* str(n) for 0 <= n < 100
DigitsOf(n) ==
    LET digit == <<"0", "1", "2", "3", "4", "5", "6", "7", "8", "9">>
    IN  IF n < 10 THEN <<digit[n + 1]>> ELSE <<digit[(n \div 10) + 1], digit[(n % 10) + 1]>>

\* text.lstrip(chars)
RECURSIVE LStripChars(_, _)
LStripChars(text, chars) ==
    IF text # <<>> /\ Head(text) \in chars THEN LStripChars(Tail(text), chars) ELSE text

\* The locals of _generate_page the loop over the items updates; error is
\* the exception the call exits with.
PageState(page_tex, in_list, in_abstract, error) ==
    [page_tex |-> page_tex, in_list |-> in_list, in_abstract |-> in_abstract,
     error |-> error]

\* re.sub(r'^(Abstract)[:.]?\s*', '', text), case ignored
StripAbstractPrefix(text) ==
    LET rest == SubSeq(text, 9, Len(text))
    IN  IF ~StartsWithWord(text, <<"a", "b", "s", "t", "r", "a", "c", "t">>) THEN text
        ELSE IF rest # <<>> /\ rest[1] \in {":", "."} THEN LStrip(Tail(rest))
        ELSE LStrip(rest)

\* re.sub(r'^(Proof)(\s*[.:])?\s*', '', text), case ignored
StripProofPrefix(text) ==
    LET rest == SubSeq(text, 6, Len(text))
    IN  IF ~StartsWithWord(text, <<"p", "r", "o", "o", "f">>) THEN text
        ELSE IF LStrip(rest) # <<>> /\ LStrip(rest)[1] \in {".", ":"}
        THEN LStrip(Tail(LStrip(rest)))
        ELSE LStrip(rest)

\* The length of group 2 of (marker)(.*?)(:|.)\s*(.*) on what follows the
\* marker: the shortest run followed by a colon or by any character; -1
\* without a match.
LabelLen(rest) ==
    LET ends == {k \in 0 .. Len(rest) - 1 : rest[k + 1] \in {":"} \cup Range(rest)}
    IN  IF ends = {} THEN -1 ELSE SetMin(ends)

\* The theorem branch: environment, optional argument, content.
TheoremMarkup(text) ==
    LET markers == {word \in {<<"t", "h", "e", "o", "r", "e", "m">>, <<"l", "e", "m", "m", "a">>} : StartsWithWord(text, word)}
        marker == CHOOSE word \in markers : TRUE
        rest == SubSeq(text, Len(marker) + 1, Len(text))
        env_name == IF marker = <<"l", "e", "m", "m", "a">> THEN <<"l", "e", "m", "m", "a">> ELSE <<"t", "h", "e", "o", "r", "e", "m">>
        label == Strip(SubSeq(rest, 1, LabelLen(rest)))
        content == Strip(SubSeq(rest, LabelLen(rest) + 2, Len(rest)))
        opt_arg == IF label # <<>> /\ Len(label) < 20 THEN <<"[">> \o label \o <<"]">>
                   ELSE <<>>
    IN  IF markers # {} /\ LabelLen(rest) >= 0
        THEN <<"\\", "b", "e", "g", "i", "n", "{">> \o env_name \o <<"}">> \o opt_arg \o <<"\n">>
             \o _escape_latex(content) \o <<"\n", "\\", "e", "n", "d", "{">> \o env_name \o <<"}", "\n", "\n">>
        ELSE <<"\\", "b", "e", "g", "i", "n", "{", "t", "h", "e", "o", "r", "e", "m", "}", "\n">> \o _escape_latex(text) \o <<"\n", "\\", "e", "n", "d", "{", "t", "h", "e", "o", "r", "e", "m", "}", "\n", "\n">>

\* The figure environment of an image; the path is a relative file name.
FigureMarkup(image_path, page_num) ==
    <<"\\", "b", "e", "g", "i", "n", "{", "f", "i", "g", "u", "r", "e", "}", "[", "h", "]", "\n", " ", " ", "\\", "c", "e", "n", "t", "e", "r", "i", "n", "g", "\n", " ", " ", "\\", "i", "n", "c", "l", "u", "d", "e", "g", "r", "a", "p", "h", "i", "c", "s", "[", "w", "i", "d", "t", "h", "=", "0", ".", "8", "\\", "t", "e", "x", "t", "w", "i", "d", "t", "h", "]", "{">>
    \o image_path \o <<"}", "\n", " ", " ", "\\", "c", "a", "p", "t", "i", "o", "n", "{", "F", "i", "g", "u", "r", "e", " ", "f", "r", "o", "m", " ", "p", "a", "g", "e", " ">> \o DigitsOf(page_num)
    \o <<"}", "\n", "\\", "e", "n", "d", "{", "f", "i", "g", "u", "r", "e", "}", "\n", "\n">>

\* The markup of an item that is not an abstract, the list closed before it
\* where the code closes it; <<>> for a type no branch handles.
MarkupOf(item, page_num) ==
    CASE item.type = "title" ->
             <<"\\", "s", "u", "b", "s", "e", "c", "t", "i", "o", "n", "*", "{">> \o _escape_latex(item.text) \o <<"}", "\n", "\n">>
      [] item.type = "theorem" -> TheoremMarkup(item.text)
      [] item.type = "proof" ->
             <<"\\", "b", "e", "g", "i", "n", "{", "p", "r", "o", "o", "f", "}", "\n">> \o _escape_latex(StripProofPrefix(item.text))
             \o <<"\n", "\\", "e", "n", "d", "{", "p", "r", "o", "o", "f", "}", "\n", "\n">>
      [] item.type = "section" ->
             <<"\\", "s", "e", "c", "t", "i", "o", "n", "{">> \o _escape_latex(item.text) \o <<"}", "\n", "\n">>
      [] item.type = "subsection" ->
             <<"\\", "s", "u", "b", "s", "e", "c", "t", "i", "o", "n", "{">> \o _escape_latex(item.text) \o <<"}", "\n", "\n">>
      [] item.type = "subsubsection" ->
             <<"\\", "s", "u", "b", "s", "u", "b", "s", "e", "c", "t", "i", "o", "n", "{">> \o _escape_latex(item.text) \o <<"}", "\n", "\n">>
      [] item.type = "list-item" ->
             <<" ", " ", "\\", "i", "t", "e", "m", " ">>
             \o _escape_latex(LStripChars(LStripChars(item.text, {Bullet, "-", "*", " "}),
                                          Digits \cup {".", "a", "b", "c", "A", "B", "C",
                                                       ")", " "}))
             \o <<"\n">>
      [] item.type = "paragraph" ->
             IF \E word \in {<<"r", "e", "f", "e", "r", "e", "n", "c", "e", "s">>, <<"b", "i", "b", "l", "i", "o", "g", "r", "a", "p", "h", "y">>} : StartsWithWord(item.text, word)
             THEN <<"\\", "s", "e", "c", "t", "i", "o", "n", "*", "{">> \o _escape_latex(item.text) \o <<"}", "\n", "\n">>
             ELSE _escape_latex(item.text) \o <<"\n", "\n">>
      [] item.type = "math" ->
             IF Strip(item.latex) # <<>>
             THEN <<"\\", "[", "\\", "n">> \o Strip(item.latex) \o <<"\\", "n", "\\", "]", "\n", "\n">> ELSE <<>>
      [] item.type = "table" ->
             IF item.latex # <<>> THEN <<"\n">> \o item.latex \o <<"\n", "\n">> ELSE <<>>
      [] item.type = "raw_latex" ->
             IF item.latex # <<>> THEN <<"\n">> \o item.latex \o <<"\n", "\n">>
             ELSE IF item.text # <<>> THEN _escape_latex(item.text) \o <<"\n", "\n">>
             ELSE IF item.image_path # <<>> THEN FigureMarkup(item.image_path, page_num)
             ELSE <<>>
      [] item.type = "image" -> FigureMarkup(item.image_path, page_num)
      [] OTHER -> <<>>

\* The item types whose branch closes an open list first.
ClosesList ==
    {"title", "theorem", "proof", "section", "subsection", "subsubsection", "paragraph",
     "math", "table", "raw_latex", "image"}

\* One iteration of "for item in merged_items".  A theorem or proof whose
\* text is None makes re.search / re.sub raise TypeError.
RenderItem(st, item, page_num) ==
    IF st.error # "none" THEN st
    ELSE IF item.type = "abstract"
    THEN [st EXCEPT !.page_tex = @ \o (IF st.in_abstract THEN <<>>
                                       ELSE <<"\\", "b", "e", "g", "i", "n", "{", "a", "b", "s", "t", "r", "a", "c", "t", "}", "\n">>)
                                   \o _escape_latex(StripAbstractPrefix(item.text))
                                   \o <<"\n">>,
                    !.in_abstract = TRUE]
    ELSE LET close_abstract == IF st.in_abstract THEN <<"\\", "e", "n", "d", "{", "a", "b", "s", "t", "r", "a", "c", "t", "}", "\n", "\n">> ELSE <<>>
             close_list == IF st.in_list /\ item.type \in ClosesList
                           THEN <<"\\", "e", "n", "d", "{", "i", "t", "e", "m", "i", "z", "e", "}", "\n", "\n">> ELSE <<>>
             open_list == IF ~st.in_list /\ item.type = "list-item"
                          THEN <<"\\", "b", "e", "g", "i", "n", "{", "i", "t", "e", "m", "i", "z", "e", "}", "\n">> ELSE <<>>
         IN  IF item.type \in {"theorem", "proof"} /\ item.text = <<>>
             THEN [st EXCEPT !.page_tex = @ \o close_abstract \o close_list,
                             !.in_abstract = FALSE, !.in_list = FALSE,
                             !.error = "TypeError"]
             ELSE [st EXCEPT !.page_tex = @ \o close_abstract \o close_list \o open_list
                                            \o MarkupOf(item, page_num),
                             !.in_abstract = FALSE,
                             !.in_list = IF item.type = "list-item" THEN TRUE
                                         ELSE IF item.type \in ClosesList THEN FALSE
                                         ELSE @]

\* The items after the first title is taken out, and that title's text.
FirstTitle(items) ==
    LET titles == {n \in DOMAIN items : items[n].type = "title"}
        first == SetMin(titles)
    IN  IF titles = {} THEN [text |-> <<>>, items |-> items]
        ELSE [text |-> items[first].text,
              items |-> SubSeq(items, 1, first - 1) \o SubSeq(items, first + 1, Len(items))]

\* page_tex before the loop: the page comment and the first title.
PageHead(page_num, first_title) ==
    <<"%", " ", "P", "a", "g", "e", " ">> \o DigitsOf(page_num) \o <<"\n">>
    \o (IF first_title # <<>>
        THEN <<"\\", "s", "e", "c", "t", "i", "o", "n", "*", "{">> \o _escape_latex(first_title) \o <<"}", "\n", "\n">> ELSE <<>>)

\* Variant of PageTail: a list left open after the loop is not closed.
PageTail_AbstractOnly(st) ==
    IF st.in_abstract THEN <<"\\", "e", "n", "d", "{", "a", "b", "s", "t", "r", "a", "c", "t", "}", "\n", "\n">> ELSE <<>>

\* The closing of an abstract and of a list left open after the loop.
PageTail(st) ==
    (IF st.in_abstract THEN <<"\\", "e", "n", "d", "{", "a", "b", "s", "t", "r", "a", "c", "t", "}", "\n", "\n">> ELSE <<>>)
    \o (IF st.in_list THEN <<"\\", "e", "n", "d", "{", "i", "t", "e", "m", "i", "z", "e", "}", "\n", "\n">> ELSE <<>>)

RECURSIVE RenderFrom(_, _, _)
RenderFrom(st, items, page_num) ==
    IF items = <<>> THEN st
    ELSE RenderFrom(RenderItem(st, Head(items), page_num), Tail(items), page_num)

\* The loop over the items of a page, from the head of the page on.
RenderedPage(refined, page_num) ==
    RenderFrom(PageState(PageHead(page_num, refined.text), FALSE, FALSE, "none"),
               refined.items, page_num)

\* What a call ends with: the markup, or the exception raised in the loop.
PageReturned(st, merged_items) ==
    [page_tex |-> IF st.error = "none" THEN st.page_tex \o PageTail(st) ELSE <<>>,
     error |-> st.error, merged |-> merged_items]

\* _generate_page from the assembler's element list on.
PageOfMerged(page_num, merged_items) ==
    PageReturned(RenderedPage(FirstTitle(_refine_semantics(merged_items, page_num)),
                              page_num),
                 merged_items)

\* _generate_page(page_num, contents, blocks): the markup returned, the
\* exception raised, and the element list the assembler returned.
_generate_page(page_num, cs, bs) ==
    PageOfMerged(page_num, _merge_text_blocks(cs, bs).merged)

-----------------------------------------------------------------------------
(* _generate_page called for two pages, the calls interleaved              *)

\* A page of text and formula blocks one below the other, gap apart.
PageOf(ks, gap) ==
    [contents |-> [n \in DOMAIN ks |-> ks[n].content],
     blocks |-> PlaceBlocks(ks, [n \in 2 .. Len(ks) |-> [gap |-> gap, dx |-> 0]],
                            1, 200, 400)]

TextKind(text, raw_label) == Kind(text, <<>>, <<>>, "text", raw_label)

\* The pages a document is made of: a theorem and its proof, two lines of a
\* paragraph, a list item (the list is open at the end of the page), an
\* abstract, a line ending on a hyphen, a paragraph and a title under it, a
\* formula and its number, a theorem written with a colon, a heading with its
\* number last.
PageCandidates ==
    { PageOf(<<TextKind(<<"T", "H", "E", "O", "R", "E", "M", " ", "2", ".", "1", ".", " ", "F", "o", "r", " ", "a", "l", "l", " ", "x", ".", ".", ".">>, "Text"),
               TextKind(<<"P", "R", "O", "O", "F", ".", " ", "S", "u", "p", "p", "o", "s", "e", ".", ".", ".">>, "Text")>>, 41),
      PageOf(<<TextKind(<<"E", "x", "p", "e", "r", "i", "m", "e", "n", "t", "a", "l">>, "Text"), TextKind(<<"R", "e", "s", "u", "l", "t", "s">>, "Text")>>, 20),
      PageOf(<<TextKind(<<"-", " ", "i", "t">>, "List-item")>>, 20),
      PageOf(<<TextKind(<<"A", "b", "s", "t", "r", "a", "c", "t", ":", " ", "w", "e">>, "Text")>>, 20),
      PageOf(<<TextKind(<<"h", "y", "-">>, "Text")>>, 20),
      PageOf(<<TextKind(<<"R", "e", "s", "u", "l", "t", "s">>, "Text"), TextKind(<<"T", "o", "p">>, "Title")>>, 20),
      PageOf(<<Kind(<<>>, <<"x">>, <<>>, "equation", "Formula"),
               TextKind(<<"(", "1", ")">>, "Text")>>, 20),
      PageOf(<<TextKind(<<"T", "h", "e", "o", "r", "e", "m", " ", "1", ":", " ", "f", "o", "o", " ", "b", "a", "r">>, "Text")>>, 20),
      PageOf(<<TextKind(<<"T", "r", "a", "n", "g", " ", "1", " ", "2">>, "Text")>>, 20) }

\* Variant of StartLocals: the locals are those the call of another page
\* holds at this moment, when there is one.
StartLocals_Carried(cl, p) ==
    LET others == {q \in DOMAIN cl : q # p /\ cl[q].pc # "idle"}
    IN  IF others = {} THEN FreshLocals ELSE cl[CHOOSE q \in others : TRUE].locals

\* merged = [], current_paragraph = [], prev_block = None: the locals of a
\* call of _merge_text_blocks do not depend on the other calls cl.
StartLocals(cl, p) == FreshLocals

\* The call of _generate_page for a page before it starts.
IdleCall ==
    [pc |-> "idle", pos |-> 1, contents |-> <<>>, locals |-> FreshLocals, merged |-> <<>>,
     items |-> <<>>, k |-> 1, st |-> PageState(<<>>, FALSE, FALSE, "none"),
     page_tex |-> <<>>]

InitPages ==
    /\ TableIdle /\ AssemblerIdle /\ EscaperIdle /\ StagesIdle
    /\ pages \in [1 .. 2 -> PageCandidates]
    /\ calls = [p \in 1 .. 2 |-> IdleCall]

\* _generate_page(page_num, contents, blocks) is entered for page p and
\* _merge_text_blocks sets up its locals.
StartPage(p) ==
    /\ calls[p].pc = "idle"
    /\ calls' = [calls EXCEPT ![p].pc = "merge",
                              ![p].contents = pages[p].contents,
                              ![p].locals = StartLocals(calls, p)]
    /\ UNCHANGED <<table_vars, asm_vars, esc_vars, stage_vars, pages>>

\* One iteration of the loop of _merge_text_blocks for page p.
MergeBlock(p) ==
    /\ calls[p].pc = "merge"
    /\ calls[p].pos <= Len(calls[p].contents)
    /\ LET step == MergeStep(calls[p].locals, calls[p].contents[calls[p].pos],
                             pages[p].blocks[calls[p].pos])
       IN  calls' = [calls EXCEPT ![p].locals = step.locals,
                                  ![p].contents[calls[p].pos].text = step.text,
                                  ![p].pos = @ + 1]
    /\ UNCHANGED <<table_vars, asm_vars, esc_vars, stage_vars, pages>>

\* The call after the refiner has run on merged_items: the first title is
\* taken out and the head of the page written.
RefinedCall(cl, page_num, merged_items, refined) ==
    [cl EXCEPT !.pc = "render",
               !.merged = merged_items,
               !.items = refined.items,
               !.st = PageState(PageHead(page_num, refined.text), FALSE, FALSE, "none")]

Refined(cl, page_num, merged_items) ==
    RefinedCall(cl, page_num, merged_items,
                FirstTitle(_refine_semantics(merged_items, page_num)))

\* The assembler returns and the refiner runs.
RefinePage(p) ==
    /\ calls[p].pc = "merge"
    /\ calls[p].pos > Len(calls[p].contents)
    /\ calls' = [calls EXCEPT ![p] = Refined(calls[p], p,
                                              Flush(calls[p].locals.merged,
                                                    calls[p].locals.current_paragraph))]
    /\ UNCHANGED <<table_vars, asm_vars, esc_vars, stage_vars, pages>>

\* One iteration of "for item in merged_items" for page p.
RenderNext(p) ==
    /\ calls[p].pc = "render"
    /\ calls[p].k <= Len(calls[p].items)
    /\ LET st == RenderItem(calls[p].st, calls[p].items[calls[p].k], p)
       IN  calls' = [calls EXCEPT ![p].st = st,
                                  ![p].k = @ + 1,
                                  ![p].pc = IF st.error = "none" THEN "render" ELSE "raised"]
    /\ UNCHANGED <<table_vars, asm_vars, esc_vars, stage_vars, pages>>

\* The open abstract and list are closed; page_tex is returned.
ReturnPage(p) ==
    /\ calls[p].pc = "render"
    /\ calls[p].k > Len(calls[p].items)
    /\ calls' = [calls EXCEPT ![p].pc = "done",
                              ![p].page_tex = calls[p].st.page_tex \o PageTail(calls[p].st)]
    /\ UNCHANGED <<table_vars, asm_vars, esc_vars, stage_vars, pages>>

NextPages ==
    \E p \in 1 .. 2 :
        \/ StartPage(p)
        \/ MergeBlock(p)
        \/ RefinePage(p)
        \/ RenderNext(p)
        \/ ReturnPage(p)

SpecPages == InitPages /\ [][NextPages]_vars

-----------------------------------------------------------------------------
(* C15: pages are independent                                              *)

\* What _generate_page gives for page p processed alone.
Alone(p) == _generate_page(p, pages[p].contents, pages[p].blocks)

\* C15: whatever the interleaving of the two calls, each page's element list
\* and markup (or the exception it ends with) are those of the page
\* processed alone, and each call starts with an empty buffer, no previous
\* block, an empty element list and both flags down.
C15_PageIndependence ==
    \A p \in DOMAIN calls :
        /\ (calls[p].pc = "merge" /\ calls[p].pos = 1) =>
               /\ calls[p].locals.merged = <<>>
               /\ calls[p].locals.current_paragraph = <<>>
               /\ calls[p].locals.prev_block = <<>>
        /\ (calls[p].pc = "render" /\ calls[p].k = 1) =>
               ~calls[p].st.in_list /\ ~calls[p].st.in_abstract
        /\ calls[p].pc \in {"render", "raised", "done"} =>
               calls[p].merged = Alone(p).merged
        /\ calls[p].pc = "done" =>
               Alone(p).error = "none" /\ calls[p].page_tex = Alone(p).page_tex
        /\ calls[p].pc = "raised" => Alone(p).error = "TypeError"

\* Both pages are done: page 1 is a line ending on a hyphen, page 2 a
\* paragraph of two lines, rendered under its own page number.
C15_Witness ==
    /\ calls # <<>>
    /\ calls[1].pc = "done" /\ calls[2].pc = "done"
    /\ pages[1] = PageOf(<<TextKind(<<"h", "y", "-">>, "Text")>>, 20)
    /\ pages[2] = PageOf(<<TextKind(<<"E", "x", "p", "e", "r", "i", "m", "e", "n", "t", "a", "l">>, "Text"), TextKind(<<"R", "e", "s", "u", "l", "t", "s">>, "Text")>>, 20)
    /\ calls[2].page_tex = <<"%", " ", "P", "a", "g", "e", " ", "2", "\n", "E", "x", "p", "e", "r", "i", "m", "e", "n", "t", "a", "l", " ", "R", "e", "s", "u", "l", "t", "s", "\n", "\n">>

-----------------------------------------------------------------------------
(* C12: the theorem and proof scenario                                     *)

TheoremPage ==
    PageOf(<<TextKind(<<"T", "H", "E", "O", "R", "E", "M", " ", "2", ".", "1", ".", " ", "F", "o", "r", " ", "a", "l", "l", " ", "x", ".", ".", ".">>, "Text"),
             TextKind(<<"P", "R", "O", "O", "F", ".", " ", "S", "u", "p", "p", "o", "s", "e", ".", ".", ".">>, "Text")>>, 41)

\* The two paragraphs of the scenario have been retyped by the refiner.
Retyped(p) ==
    /\ pages[p] = TheoremPage
    /\ calls[p].pc \in {"render", "done"}
    /\ Len(calls[p].items) = 2
    /\ calls[p].items[1].type = "theorem"
    /\ calls[p].items[2].type = "proof"

\* C12: "THEOREM 2.1. For all x..." followed by "PROOF. Suppose..." becomes
\* a theorem with label "2.1" and body "For all x...", and a proof whose
\* body is "Suppose...", the marker stripped.
C12_TheoremProofScenario ==
    \A p \in DOMAIN calls :
        (pages[p] = TheoremPage /\ calls[p].pc = "done") =>
            /\ Retyped(p)
            /\ MarkupOf(calls[p].items[1], p)
                   = <<"\\", "b", "e", "g", "i", "n", "{", "t", "h", "e", "o", "r", "e", "m", "}", "[", "2", ".", "1", "]", "\n", "F", "o", "r", " ", "a", "l", "l", " ", "x", ".", ".", ".", "\n", "\\", "e", "n", "d", "{", "t", "h", "e", "o", "r", "e", "m", "}", "\n", "\n">>
            /\ MarkupOf(calls[p].items[2], p)
                   = <<"\\", "b", "e", "g", "i", "n", "{", "p", "r", "o", "o", "f", "}", "\n", "S", "u", "p", "p", "o", "s", "e", ".", ".", ".", "\n", "\\", "e", "n", "d", "{", "p", "r", "o", "o", "f", "}", "\n", "\n">>

\* What the code gives in the scenario: both paragraphs are retyped and the
\* proof marker is stripped, but the theorem has no label and its body still
\* starts with the number.
TheoremScenarioAsCoded ==
    \A p \in DOMAIN calls :
        (pages[p] = TheoremPage /\ calls[p].pc = "done") =>
            /\ Retyped(p)
            /\ calls[p].page_tex
                   = PageHead(p, <<>>)
                     \o <<"\\", "b", "e", "g", "i", "n", "{", "t", "h", "e", "o", "r", "e", "m", "}", "\n", "2", ".", "1", ".", " ", "F", "o", "r", " ", "a", "l", "l", " ", "x", ".", ".", ".", "\n", "\\", "e", "n", "d", "{", "t", "h", "e", "o", "r", "e", "m", "}", "\n", "\n">>
                     \o <<"\\", "b", "e", "g", "i", "n", "{", "p", "r", "o", "o", "f", "}", "\n", "S", "u", "p", "p", "o", "s", "e", ".", ".", ".", "\n", "\\", "e", "n", "d", "{", "p", "r", "o", "o", "f", "}", "\n", "\n">>

-----------------------------------------------------------------------------
(* _merge_text_blocks on pages with equation numbers, tables and figures   *)

\* The largest number of blocks on such a page.
MaxTagBlocks == 3

\* What a block may hold: an equation number, a formula, a table, a line of
\* body text, a figure, a bare number, a labelled title.
TagKinds ==
    { Kind(<<"(", "1", ")">>, <<>>, <<>>, "text", "Text"),
      Kind(<<>>, <<"x">>, <<>>, "equation", "Formula"),
      Kind(<<>>, <<"t">>, <<>>, "table", "Table"),
      Kind(<<"R", "e", "s", "u", "l", "t", "s">>, <<>>, <<>>, "text", "Text"),
      Kind(<<>>, <<>>, <<"i">>, "figure", "Picture"),
      Kind(<<"7">>, <<>>, <<>>, "text", "Text"),
      Kind(<<"T", "o", "p">>, <<>>, <<>>, "text", "Title") }

\* A block follows the one before it closely or after a paragraph gap.
TagPlacements == {[gap |-> 20, dx |-> 0], [gap |-> 41, dx |-> 0]}

\* The first block lies in the top margin or in the body of the page.
TagTops == {50, 400}

InitTagged ==
    /\ TableIdle /\ EscaperIdle /\ PagesIdle /\ StagesIdle
    /\ \E n \in 1 .. MaxTagBlocks :
          \E ks \in [1 .. n -> TagKinds], ps \in [2 .. n -> TagPlacements], top \in TagTops :
              /\ contents = [m \in 1 .. n |-> ks[m].content]
              /\ blocks = PlaceBlocks(ks, ps, 1, 200, top)
    /\ a_pc = "ready"
    /\ pos = 1
    /\ merged = <<>> /\ current_paragraph = <<>> /\ prev_block = <<>>
    /\ should_break = FALSE /\ block_classification = "none"
    /\ runs = <<>>

\* The one call of _merge_text_blocks for the page.
CallMergeOnce == runs = <<>> /\ CallMerge

NextTagged ==
    \/ CallMergeOnce
    \/ AssembleBlock
    \/ ReturnMerged

SpecTagged == InitTagged /\ [][NextTagged]_vars

-----------------------------------------------------------------------------
(* C21: an equation number after a formula                                 *)

\* The loop is about to read a block that holds only an equation number.
AtTagBlock ==
    /\ a_pc = "loop"
    /\ pos <= Len(contents)
    /\ eq_num_pattern(contents[pos].text) # <<>>

\* The element emitted last is a formula and no text is buffered.
MathIsLast ==
    /\ current_paragraph = <<>>
    /\ merged # <<>>
    /\ merged[Len(merged)].type = "math"

\* C21: a block that is only a parenthesized numeral, read when the element
\* emitted last is math and the buffer is empty, is appended as a tag to that
\* element's markup and consumed, the number of elements unchanged; when the
\* element emitted last is not math the block is ordinary text: it becomes
\* the last line of the buffer, or a structural element of its own when it
\* is classified as one, and no element emitted before is changed.
C21_TrailingTag ==
    [][AtTagBlock =>
          IF MathIsLast
          THEN /\ merged' = [merged EXCEPT ![Len(merged)].latex =
                                @ \o TagMarkup(eq_num_pattern(contents[pos].text))]
               /\ Len(merged') = Len(merged)
               /\ current_paragraph' = <<>>
          ELSE /\ Len(merged') >= Len(merged)
               /\ SubSeq(merged', 1, Len(merged)) = merged
               /\ \/ /\ current_paragraph' # <<>>
                     /\ current_paragraph'[Len(current_paragraph')] = contents[pos].text
                  \/ /\ current_paragraph' = <<>>
                     /\ Len(merged') > Len(merged)
                     /\ merged'[Len(merged')].type \in Structural
                     /\ merged'[Len(merged')].text = contents[pos].text]_vars

\* A formula followed by "(1)": both blocks read, one element, tagged.
C21_Witness ==
    /\ a_pc = "loop"
    /\ Len(contents) = 2
    /\ pos = 3
    /\ contents[1].latex = <<"x">>
    /\ contents[2].text = <<"(", "1", ")">>
    /\ merged = <<Element("math", <<>>, <<"x", " ", "\\", "t", "a", "g", "{", "1", "}">>, <<>>, <<>>)>>
    /\ current_paragraph = <<>>

-----------------------------------------------------------------------------
(* C22: an equation number before a formula or a table                     *)

\* The loop is about to read a block of math or table markup.
AtLatexBlock ==
    /\ a_pc = "loop"
    /\ pos <= Len(contents)
    /\ contents[pos].text = <<>>
    /\ contents[pos].latex # <<>>

\* The numeral of a buffer that holds an equation number and nothing else,
\* without its spaces; <<>> for any other buffer.
BufferedTag ==
    IF current_paragraph = <<>> THEN <<>>
    ELSE SelectSeq(eq_num_pattern(Strip(Join(current_paragraph, <<" ">>))),
                   LAMBDA ch : ch # " ")

\* The element the block becomes, given the markup it carries.
LatexElement(latex) ==
    Element(IF blocks[pos].block_type = "table" THEN "table" ELSE "math",
            <<>>, latex, <<>>, <<>>)

\* C22: when a math or table block arrives the buffer is emptied before the
\* new element is appended; a buffer that is only an equation number gives
\* no paragraph and becomes the tag of the new element; any other buffer is
\* emitted as a paragraph directly before the new element.
C22_LeadingTag ==
    [][AtLatexBlock =>
          /\ current_paragraph' = <<>>
          /\ IF BufferedTag # <<>>
             THEN /\ merged' = Append(merged,
                                      LatexElement(contents[pos].latex
                                                   \o TagMarkup(BufferedTag)))
                  /\ merged'[Len(merged')].type = "math"
             ELSE merged' = Append(Flush(merged, current_paragraph),
                                   LatexElement(contents[pos].latex))]_vars

\* What the code does: as above for a formula; before a table a buffer that
\* is only an equation number is emptied and appears nowhere.
LeadingTagAsCoded ==
    [][AtLatexBlock =>
          /\ current_paragraph' = <<>>
          /\ IF BufferedTag # <<>> /\ blocks[pos].block_type # "table"
             THEN merged' = Append(merged,
                                   LatexElement(contents[pos].latex
                                                \o TagMarkup(BufferedTag)))
             ELSE IF BufferedTag # <<>>
             THEN merged' = Append(merged, LatexElement(contents[pos].latex))
             ELSE merged' = Append(Flush(merged, current_paragraph),
                                   LatexElement(contents[pos].latex))]_vars

-----------------------------------------------------------------------------
(* C28: the assembler loses no text                                        *)

\* The blocks of the page whose text the assembler has to place: those with
\* a text that are not dropped as page numbers in the margin.
PlacedBlocks ==
    {n \in DOMAIN contents : contents[n].text # <<>> /\ ~IsNoise(contents[n], blocks[n])}

\* Element e holds the text of block n: as a line of a paragraph, as the text
\* of a structural element, or as the tag of a math element.
Carries(e, n) ==
    LET text == NormalizeSpaces(contents[n].text)
        numeral == SelectSeq(eq_num_pattern(contents[n].text), LAMBDA ch : ch # " ")
    IN  \/ e.type = "paragraph" /\ Contains(e.text, text)
        \/ e.type \in Structural /\ e.text = text
        \/ e.type = "math" /\ numeral # <<>> /\ Contains(e.latex, TagMarkup(numeral))

\* C28: when the call has returned, every text block that was not dropped
\* as noise has its text in an element of the result, the elements that
\* hold the texts following the order of the blocks; the lines left in the
\* buffer at the end of the stream are the last paragraph of the result.
C28_NoTextLost ==
    a_pc = "returned" =>
        /\ \E holder \in [PlacedBlocks -> DOMAIN merged] :
              /\ \A n \in PlacedBlocks : Carries(merged[holder[n]], n)
              /\ \A n, m \in PlacedBlocks : n < m => holder[n] <= holder[m]
        /\ current_paragraph # <<>> =>
              merged[Len(merged)] = ParagraphOf(current_paragraph)

-----------------------------------------------------------------------------
(* C29: the previous block is the block of the last buffered line          *)

\* The loop is about to read a block.
AtBlock == a_pc = "loop" /\ pos <= Len(contents)

\* The line the block at pos adds to the buffer when it is regular text.
LineOfBlock == NormalizeSpaces(RepairedText(contents[pos].text))

\* The step has appended the text of the block at pos to the buffer, kept or
\* started anew.
LineBuffered ==
    /\ contents[pos].text # <<>>
    /\ current_paragraph' \in {Append(current_paragraph, LineOfBlock), <<LineOfBlock>>}

\* C29: the buffer is empty when the call starts, and every iteration that
\* leaves the buffer non-empty either has appended the text of its block to
\* it and made that block the previous block, or has changed neither the
\* buffer nor the previous block; so whenever the buffer is non-empty the
\* previous block is the block of its last line.
C29_PrevBlockIsLastBuffered ==
    [][/\ (a_pc' = "loop" /\ a_pc # "loop") =>
              current_paragraph' = <<>> /\ prev_block' = <<>>
       /\ (AtBlock /\ current_paragraph' # <<>>) =>
              \/ LineBuffered /\ prev_block' = <<blocks[pos]>>
              \/ UNCHANGED <<current_paragraph, prev_block>>]_vars

\* Two lines are buffered and the previous block is the second of them,
\* after a figure that was passed by before the first.
C29_Witness ==
    /\ a_pc = "loop"
    /\ pos = 4
    /\ contents[1].image_path # <<>>
    /\ Len(current_paragraph) = 2
    /\ prev_block = <<blocks[3]>>

-----------------------------------------------------------------------------
(* _refine_semantics, element by element                                   *)

\* The longest list handed to the refiner.
MaxItems == 2

\* Headings of more than 20 words that were merged with their body.
MergedStudy == <<"S", "T", "U", "D", "Y", " ", "O", "F", " ", "X", ".", " ", "W", "e", " ", "a", " ", "a", " ", "a", " ", "a", " ", "a", " ", "a", " ", "a", " ", "a", " ", "a", " ", "a", " ", "a", " ", "a", " ", "a", " ", "a", " ", "a", " ", "a", " ", "a", " ", "a">>
MergedTitle == <<"T", "I", "T", "L", "E", ":", " ", "b", " ", "b", " ", "b", " ", "b", " ", "b", " ", "b", " ", "b", " ", "b", " ", "b", " ", "b", " ", "b", " ", "b", " ", "b", " ", "b", " ", "b", " ", "b", " ", "b", " ", "b", " ", "b", " ", "b", " ", "b">>
MergedAims == <<"A", "I", "M", "S", ".", " ", "c", " ", "c", " ", "c", " ", "c", " ", "c", " ", "c", " ", "c", " ", "c", " ", "c", " ", "c", " ", "c", " ", "c", " ", "c", " ", "c", " ", "c", " ", "c", " ", "c", " ", "c", " ", "c", " ", "c", " ", "c">>

\* What the assembler may hand over: a plain paragraph, a paragraph left
\* with an empty text by a blank block, merged headings, labelled starts
\* ("Proof:", "Theorem 1:", "Note:", "Abstract:"), a proof, a formula.
RefinerElements ==
    { Element("paragraph", <<"R", "e", "s", "u", "l", "t", "s">>, <<>>, <<>>, <<>>),
      Element("paragraph", <<>>, <<>>, <<>>, <<>>),
      Element("section", MergedStudy, <<>>, <<>>, <<>>),
      Element("section", MergedTitle, <<>>, <<>>, <<>>),
      Element("section", MergedAims, <<>>, <<>>, <<>>),
      Element("paragraph", <<"P", "r", "o", "o", "f", ":", " ", "a", "b", "c", " ", "d", "e", "f">>, <<>>, <<>>, <<>>),
      Element("paragraph", <<"T", "h", "e", "o", "r", "e", "m", " ", "1", ":", " ", "f", "o", "o", " ", "b", "a", "r">>, <<>>, <<>>, <<>>),
      Element("paragraph", <<"N", "o", "t", "e", ":", " ", "a", "b", "c", " ", "d", "e", "f">>, <<>>, <<>>, <<>>),
      Element("paragraph", <<"A", "b", "s", "t", "r", "a", "c", "t", ":", " ", "w", "e">>, <<>>, <<>>, <<>>),
      Element("paragraph", <<"P", "R", "O", "O", "F", ".", " ", "S", "u", "p", "p", "o", "s", "e", ".", ".", ".">>, <<>>, <<>>, <<>>),
      Element("math", <<>>, <<"x">>, <<>>, <<>>) }

InitRefiner ==
    /\ TableIdle /\ AssemblerIdle /\ EscaperIdle /\ PagesIdle /\ RendererIdle
    /\ \E n \in 1 .. MaxItems : refiner_items \in [1 .. n -> RefinerElements]
    /\ refined_items = <<>>
    /\ r_pos = 0
    /\ r_page_num = 0

\* _refine_semantics(items, page_num) is called: refined_items = [].
CallRefine ==
    /\ r_pos = 0
    /\ r_page_num' \in {1, 2}
    /\ r_pos' = 1
    /\ refined_items' = <<>>
    /\ UNCHANGED <<table_vars, asm_vars, esc_vars, page_vars, rend_vars, refiner_items>>

\* One iteration of the loop.  The item is retyped and rewritten in place:
\* the element appended (the header, when the item is split) is the item of
\* the list handed over.
RefineItem ==
    /\ r_pos >= 1
    /\ r_pos <= Len(refiner_items)
    /\ refined_items' = refined_items \o RefinedSegment(refiner_items[r_pos], r_page_num)
    /\ refiner_items' =
           IF RefinedSegment(refiner_items[r_pos], r_page_num) = <<>> THEN refiner_items
           ELSE [refiner_items EXCEPT
                     ![r_pos] = RefinedSegment(refiner_items[r_pos], r_page_num)[1]]
    /\ r_pos' = r_pos + 1
    /\ UNCHANGED <<table_vars, asm_vars, esc_vars, page_vars, rend_vars, r_page_num>>

NextRefiner ==
    \/ CallRefine
    \/ RefineItem

SpecRefiner == InitRefiner /\ [][NextRefiner]_vars

\* The loop has ended: refined_items is what the call returns.
RefinerReturned == r_pos > Len(refiner_items)

-----------------------------------------------------------------------------
(* C23: the refiner keeps the order of the elements                        *)

\* The loop is about to read an item.
AtItem == r_pos >= 1 /\ r_pos <= Len(refiner_items)

\* What the iteration appends to refined_items.
Appended == SubSeq(refined_items', Len(refined_items) + 1, Len(refined_items'))

\* The iteration leaves what it had appended before as it is and appends at
\* the end only.
AppendsAtEnd ==
    /\ Len(refined_items') >= Len(refined_items)
    /\ SubSeq(refined_items', 1, Len(refined_items)) = refined_items

\* The first appended element is the item read, retyped or rewritten in
\* place; it keeps its image and metadata, and its text unless the text is
\* replaced by markup or by the header.
ItemKept ==
    /\ Appended[1] = refiner_items'[r_pos]
    /\ Appended[1].image_path = refiner_items[r_pos].image_path
    /\ Appended[1].metadata = refiner_items[r_pos].metadata

\* An item is split: the item, typed section, then one new paragraph.
SplitInTwo ==
    /\ ItemKept
    /\ Appended[1].type = "section"
    /\ Appended[2].type = "paragraph"
    /\ Appended[2].text # <<>>
    /\ Appended[2].latex = <<>> /\ Appended[2].image_path = <<>>
    /\ Appended[1].text \o <<" ">> \o Appended[2].text = refiner_items[r_pos].text

\* C23 as stated: each iteration appends, after what is there, the item it
\* read, or that item typed section followed by one new paragraph with the
\* body; nothing else changes the sequence.
C23_OnlySplitsChangeOrder ==
    [][AtItem =>
          /\ AppendsAtEnd
          /\ Len(Appended) \in {1, 2}
          /\ Len(Appended) = 1 => ItemKept /\ Appended[1].text \in {refiner_items[r_pos].text, <<>>}
          /\ Len(Appended) = 2 => SplitInTwo]_vars

\* C23, amended: as above, and an item without text, markup and image is
\* left out of the result.
C23_OrderPreserved ==
    [][AtItem =>
          /\ AppendsAtEnd
          /\ Len(Appended) \in {0, 1, 2}
          /\ Len(Appended) = 0 <=>
                 /\ Strip(refiner_items[r_pos].text) = <<>>
                 /\ refiner_items[r_pos].latex = <<>>
                 /\ refiner_items[r_pos].image_path = <<>>
          /\ Len(Appended) = 1 => ItemKept /\ Appended[1].text \in {refiner_items[r_pos].text, <<>>}
          /\ Len(Appended) = 2 => SplitInTwo]_vars

\* A merged heading followed by a formula: header, body, formula.
C23_Witness ==
    /\ RefinerReturned
    /\ Len(refiner_items) = 2
    /\ Len(refined_items) = 3
    /\ refined_items[1] = Element("section", <<"T", "I", "T", "L", "E", ":">>, <<>>, <<>>, <<>>)
    /\ refined_items[2].type = "paragraph"
    /\ refined_items[3] = Element("math", <<>>, <<"x">>, <<>>, <<>>)

-----------------------------------------------------------------------------
(* C24: the header of a split ends at the first colon or period            *)

\* The position of the first colon or period of a text; 0 without one.
FirstPunctuation(text) ==
    LET marks == {n \in DOMAIN text : text[n] \in {":", "."}}
    IN  IF marks = {} THEN 0 ELSE SetMin(marks)

\* The item read is split by the second heuristic: its text has no line
\* break, and the punctuation pattern gives a header and a body.
SplitBySecondHeuristic ==
    /\ AtItem
    /\ Len(Appended) = 2
    /\ "\n" \notin Range(refiner_items[r_pos].text)
    /\ SplitAtPunctuation(Strip(refiner_items[r_pos].text)) # <<>>

\* C24: when a section or section-like paragraph of more than 20 words is
\* split by heuristic (b), the header kept is the text up to and including
\* its first colon or period, the body is the text after that mark, and
\* header and body give back the text up to whitespace.
C24_SplitAtFirstPunctuation ==
    [][SplitBySecondHeuristic =>
          LET text == Strip(refiner_items[r_pos].text)
              mark == FirstPunctuation(text)
          IN  /\ mark > 0
              /\ Appended[1].text = SubSeq(text, 1, mark)
              /\ Appended[2].text = LStrip(SubSeq(text, mark + 1, Len(text)))
              /\ Appended[1].text \o <<" ">> \o Appended[2].text = text]_vars

\* What the code does: the header is the shortest start of at least six
\* characters that is followed by whitespace, whether or not it ends on a
\* colon or period.
SplitAtWordEndAsCoded ==
    [][SplitBySecondHeuristic =>
          LET text == Strip(refiner_items[r_pos].text)
              ends == {k \in 6 .. 51 : k < Len(text) /\ text[k + 1] \in Whitespace}
          IN  /\ ends # {}
              /\ Appended[1].text = SubSeq(text, 1, SetMin(ends))
              /\ Appended[2].text = LStrip(SubSeq(text, SetMin(ends) + 1, Len(text)))]_vars

-----------------------------------------------------------------------------
(* C27: typed elements keep their text                                     *)

\* The types the page renderer renders from the text of the element.
TextTypes == {"theorem", "proof", "abstract", "section", "paragraph"}

\* C27: after the refiner has run, every element typed theorem, proof,
\* abstract, section or paragraph has a text; a paragraph "Proof: ..." or
\* "Theorem 1: ..." does not end typed proof or theorem with its text cleared
\* by the label-colon rewrite.
C27_TypedElementsKeepText ==
    RefinerReturned =>
        \A n \in DOMAIN refined_items :
            refined_items[n].type \in TextTypes => refined_items[n].text # <<>>

\* What the code does with a labelled start: the label-colon rewrite clears
\* the text, and the theorem and proof rules that come after it retype the
\* element all the same; the renderer then raises on the missing text.
LabelRewriteAsCoded ==
    RefinerReturned =>
        \A n \in DOMAIN refined_items :
            (refined_items[n].type \in TextTypes /\ refined_items[n].text = <<>>) =>
                /\ refined_items[n].type \in {"theorem", "proof"}
                /\ StartsWith(refined_items[n].latex, <<"\\", "p", "a", "r", "a", "g", "r", "a", "p", "h", "{">>)
                /\ RenderItem(PageState(<<>>, FALSE, FALSE, "none"), refined_items[n],
                              r_page_num).error = "TypeError"

-----------------------------------------------------------------------------
(* C26: each reserved character is escaped once                            *)

\* The escape sequence the replacements dict gives for one character of
\* plain text; a bullet becomes an item.
EscapeSequence(ch) ==
    LET found == {n \in DOMAIN replacements : replacements[n][1] = <<ch>>}
    IN  IF ch = Bullet THEN ItemMarkup
        ELSE IF found = {} THEN <<ch>>
        ELSE replacements[CHOOSE n \in found : TRUE][2]

\* A span of plain text with every character replaced by its sequence.
RECURSIVE EachEscaped(_)
EachEscaped(text) ==
    IF text = <<>> THEN <<>> ELSE EscapeSequence(Head(text)) \o EachEscaped(Tail(text))

\* The spans of a text one after the other: a protected math span as it
\* is, a plain span with each character escaped.
RECURSIVE SpansEscaped(_)
SpansEscaped(parts) ==
    IF parts = <<>> THEN <<>>
    ELSE (IF Head(parts)[1] = "$" /\ Len(Head(parts)) >= 3 THEN Head(parts)
          ELSE EachEscaped(Head(parts)))
         \o SpansEscaped(Tail(parts))

\* C26: in a plain span each reserved character is replaced by exactly its
\* escape sequence and no character of a sequence is escaped again (a
\* backslash becomes \textbackslash{}); a protected math span comes out
\* unchanged.
C26_EscapedExactlyOnce ==
    Len(escaped) >= 1 => escaped[1] = SpansEscaped(SplitMath(plain))

\* What the code gives for a text without math delimiter: each character
\* by its sequence, but the braces of \textbackslash{} escaped in turn.
EscapingAsCoded ==
    (Len(escaped) >= 1 /\ "$" \notin Range(plain)) =>
        escaped[1] = Replace(EachEscaped(plain), <<"\\", "t", "e", "x", "t", "b", "a", "c", "k", "s", "l", "a", "s", "h", "{", "}">>, <<"\\", "t", "e", "x", "t", "b", "a", "c", "k", "s", "l", "a", "s", "h", "\\", "{", "\\", "}">>)

-----------------------------------------------------------------------------
(* The rendering loop of _generate_page on its own: the list and abstract  *)
(* environments it opens and closes                                        *)

MaxRenderItems == 3

\* Refined elements handed to the loop: list items, abstract lines, the
\* types that close a list, and a proof whose text the refiner set to None.
RenderElements ==
    { Element("list-item", <<"-", " ", "a">>, <<>>, <<>>, <<>>),
      Element("list-item", <<"1", ".", " ", "b">>, <<>>, <<>>, <<>>),
      Element("abstract", <<"A", "b", "s", "t", "r", "a", "c", "t", ":", " ", "x">>, <<>>, <<>>, <<>>),
      Element("abstract", <<"y">>, <<>>, <<>>, <<>>),
      Element("paragraph", <<"p">>, <<>>, <<>>, <<>>),
      Element("section", <<"S">>, <<>>, <<>>, <<>>),
      Element("title", <<"T">>, <<>>, <<>>, <<>>),
      Element("math", <<>>, <<"x">>, <<>>, <<>>),
      Element("theorem", <<"T", "h", "e", "o", "r", "e", "m", " ", "1", ".", " ", "z">>, <<>>, <<>>, <<>>),
      Element("proof", <<>>, <<"\\", "p", "a", "r", "a", "g", "r", "a", "p", "h", "{", "P", "r", "o", "o", "f", ":", "}", " ", "q">>, <<>>, <<>>) }

InitRenderer ==
    /\ TableIdle /\ AssemblerIdle /\ EscaperIdle /\ PagesIdle /\ RefinerIdle
    /\ \E n \in 1 .. MaxRenderItems : render_items \in [1 .. n -> RenderElements]
    /\ render_pos = 0
    /\ render_st = <<>>

\* The first title is taken out of the list and heads the page; the flags
\* in_list and in_abstract start False.
StartRender ==
    /\ render_pos = 0
    /\ render_st' = <<PageState(PageHead(1, FirstTitle(render_items).text),
                                FALSE, FALSE, "none")>>
    /\ render_items' = FirstTitle(render_items).items
    /\ render_pos' = 1
    /\ UNCHANGED <<table_vars, asm_vars, esc_vars, page_vars, ref_vars>>

\* One iteration of the loop over merged_items.
RenderElement ==
    /\ render_pos >= 1
    /\ render_pos <= Len(render_items)
    /\ Len(render_st) = 1
    /\ render_st[1].error = "none"
    /\ render_st' = <<RenderItem(render_st[1], render_items[render_pos], 1)>>
    /\ render_pos' = render_pos + 1
    /\ UNCHANGED <<table_vars, asm_vars, esc_vars, page_vars, ref_vars, render_items>>

\* After the loop: the open abstract and the open list are closed and
\* page_tex is returned (the second component of render_st).
FinishPage ==
    /\ render_pos > Len(render_items)
    /\ Len(render_st) = 1
    /\ render_st[1].error = "none"
    /\ render_st' = <<render_st[1], render_st[1].page_tex \o PageTail(render_st[1])>>
    /\ UNCHANGED <<table_vars, asm_vars, esc_vars, page_vars, ref_vars, render_items,
                   render_pos>>

NextRenderer ==
    \/ StartRender
    \/ RenderElement
    \/ FinishPage

SpecRenderer == InitRenderer /\ [][NextRenderer]_vars

Rendering == Len(render_st) = 1
PageRendered == Len(render_st) = 2

\* The environment markup the loop writes.
EnvMarks ==
    { [tok |-> "begin", env |-> "itemize", s |-> <<"\\", "b", "e", "g", "i", "n", "{", "i", "t", "e", "m", "i", "z", "e", "}">>],
      [tok |-> "end", env |-> "itemize", s |-> <<"\\", "e", "n", "d", "{", "i", "t", "e", "m", "i", "z", "e", "}">>],
      [tok |-> "begin", env |-> "abstract", s |-> <<"\\", "b", "e", "g", "i", "n", "{", "a", "b", "s", "t", "r", "a", "c", "t", "}">>],
      [tok |-> "end", env |-> "abstract", s |-> <<"\\", "e", "n", "d", "{", "a", "b", "s", "t", "r", "a", "c", "t", "}">>] }

EnvAt(tex, at) ==
    {m \in EnvMarks : at + Len(m.s) - 1 <= Len(tex) /\ SubSeq(tex, at, at + Len(m.s) - 1) = m.s}

EnvPositions(tex) == {at \in DOMAIN tex : tex[at] = "\\" /\ EnvAt(tex, at) # {}}

\* The begins and ends of a page text, in the order written.
EnvTokens(tex) ==
    LET ps == EnvPositions(tex)
    IN  [k \in 1 .. Cardinality(ps) |->
            CHOOSE m \in EnvAt(tex, CHOOSE at \in ps : Cardinality({j \in ps : j < at}) = k - 1) : TRUE]

\* The environments left open by a sequence of begins and ends, innermost
\* last; <<"bad">> when an environment is opened while open, or an end does
\* not close the innermost open environment.
RECURSIVE OpenAfter(_, _)
OpenAfter(toks, open) ==
    IF toks = <<>> \/ open = <<"bad">> THEN open
    ELSE IF Head(toks).tok = "begin"
    THEN IF \E n \in DOMAIN open : open[n] = Head(toks).env THEN <<"bad">>
         ELSE OpenAfter(Tail(toks), Append(open, Head(toks).env))
    ELSE IF open = <<>> \/ open[Len(open)] # Head(toks).env THEN <<"bad">>
         ELSE OpenAfter(Tail(toks), SubSeq(open, 1, Len(open) - 1))

OpenEnvs(tex) == OpenAfter(EnvTokens(tex), <<>>)

\* The environments the flags say are open.
FlaggedOpen(st) ==
    (IF st.in_list THEN <<"itemize">> ELSE <<>>)
    \o (IF st.in_abstract THEN <<"abstract">> ELSE <<>>)

\* The list items rendered so far that start a run of list items.
ListRuns ==
    {k \in 1 .. render_pos - 1 :
        /\ k <= Len(render_items)
        /\ render_items[k].type = "list-item"
        /\ (k = 1 \/ render_items[k - 1].type # "list-item")}

ListsOpened(tex) ==
    Cardinality({at \in EnvPositions(tex) : \E m \in EnvAt(tex, at) : m.tok = "begin" /\ m.env = "itemize"})

\* C30: in the page text written so far the begins and ends of the list and
\* abstract environments are properly nested, none is opened while open, no
\* end comes without its begin, and the environments open are exactly those
\* the flags in_list and in_abstract record; consecutive list items share
\* one list environment; in the page returned every environment is closed.
C30_BalancedEnvironments ==
    /\ Rendering \/ PageRendered =>
          /\ OpenEnvs(render_st[1].page_tex) = FlaggedOpen(render_st[1])
          /\ ListsOpened(render_st[1].page_tex) <= Cardinality(ListRuns)
    /\ PageRendered => OpenEnvs(render_st[2]) = <<>>

\* A page is returned that held two consecutive list items in one list and
\* an abstract, both closed.
C30_Witness ==
    /\ PageRendered
    /\ ListsOpened(render_st[2]) = 1
    /\ \E k \in 1 .. Len(render_items) - 1 :
          render_items[k].type = "list-item" /\ render_items[k + 1].type = "list-item"
    /\ \E m \in Range(EnvTokens(render_st[2])) : m.tok = "end" /\ m.env = "abstract"

-----------------------------------------------------------------------------
(* Spanning cells and the base grid of a region                            *)

\* The index space of a region.
GridIndices(region) ==
    (0 .. Len(region.t_rows) - 1) \X (0 .. Len(region.t_cols) - 1)

\* The spans of a region that match at least one row and one column.
MatchedSpans(region) ==
    SelectSeq(region.t_spans,
              LAMBDA s : /\ CoveredRows(s, region.t_rows) # {}
                         /\ CoveredCols(s, region.t_cols) # {})

\* The indices inside the range [min row .. max row] x [min col .. max col]
\* of some matched span.
UnderSpan(region) ==
    {rc \in GridIndices(region) :
        \E k \in DOMAIN MatchedSpans(region) :
            LET cr == CoveredRows(MatchedSpans(region)[k], region.t_rows)
                cc == CoveredCols(MatchedSpans(region)[k], region.t_cols)
            IN  /\ \E lo \in cr : lo <= rc[1]
                /\ \E hi \in cr : rc[1] <= hi
                /\ \E lo \in cc : lo <= rc[2]
                /\ \E hi \in cc : rc[2] <= hi}

\* The row/column intersection at an index has positive area.
PositiveArea(region, rc) ==
    /\ Min2(region.t_rows[rc[1] + 1][3], region.t_cols[rc[2] + 1][3])
         > Max2(region.t_rows[rc[1] + 1][1], region.t_cols[rc[2] + 1][1])
    /\ Min2(region.t_rows[rc[1] + 1][4], region.t_cols[rc[2] + 1][4])
         > Max2(region.t_rows[rc[1] + 1][2], region.t_cols[rc[2] + 1][2])

\* The cells the gap-filling step appended: those after the merged cells.
GapCells(region) ==
    SubSeq(region.final_cells, Len(MatchedSpans(region)) + 1, Len(region.final_cells))

\* C25: spanning cells take priority over the base grid.  In every region
\* reconstructed, every index in the range of a span that matches a row and
\* a column is consumed; the gap-filling step emits a cell at (r, c) exactly
\* when (r, c) is not consumed and the intersection there has positive area,
\* once, with row_span = col_span = 1; none of its cells lies in the range
\* of a span.
C25_SpansTakePriority ==
    \A n \in DOMAIN regions :
        ~regions[n].skipped =>
            /\ UnderSpan(regions[n]) \subseteq regions[n].consumed
            /\ \A rc \in GridIndices(regions[n]) :
                  Cardinality({k \in DOMAIN GapCells(regions[n]) :
                                  /\ GapCells(regions[n])[k].row_idx = rc[1]
                                  /\ GapCells(regions[n])[k].col_idx = rc[2]})
                  = IF rc \notin regions[n].consumed /\ PositiveArea(regions[n], rc)
                    THEN 1 ELSE 0
            /\ \A k \in DOMAIN GapCells(regions[n]) :
                  /\ GapCells(regions[n])[k].row_span = 1
                  /\ GapCells(regions[n])[k].col_span = 1
                  /\ <<GapCells(regions[n])[k].row_idx, GapCells(regions[n])[k].col_idx>>
                         \in GridIndices(regions[n]) \ UnderSpan(regions[n])

\* A region with a matched span over an intersection of positive area, and
\* a cell of the base grid beside it.
C25_Witness ==
    \E n \in DOMAIN regions :
        /\ ~regions[n].skipped
        /\ \E rc \in UnderSpan(regions[n]) : PositiveArea(regions[n], rc)
        /\ GapCells(regions[n]) # <<>>

=============================================================================
